---- MODULE Spec2Model ----
(***************************************************************************)
(* The unlearning loops of filyp/fading-backprop as state machines.        *)
(*                                                                         *)
(* Five scripts hold a loop of the family; `variant` says which one runs:  *)
(*   "adapters"      src/src/adversarial_adapters.py   (objective)         *)
(*   "seek"          src/src/seek_and_destroy.py       (objective)         *)
(*   "no_abs"        src/src/seek_and_destroy_no_abs.py (objective)        *)
(*   "adaptation"    src/src/adversarial_adaptation.py (script body)       *)
(*   "dynamic_mask"  src/src/aa_dynamic_mask.py        (script body)       *)
(* The threshold selection of adversarial_adaptation.py ("get mask") and   *)
(* of one_hit.py ("sparsify circuit") is modelled as well (SpecThreshold), *)
(* and so are the disruption-score update (SpecScore) and the angle mask   *)
(* (SpecAngle) over wider inputs than the loops draw.                      *)
(*                                                                         *)
(* Numbers.  Tensors are sequences of integers.  The model's forward and   *)
(* backward pass is an opaque differentiable function: a backward pass     *)
(* draws the gradient of every parameter that requires grad from GradVals. *)
(* Disruption scores are kept in units of 1/ScoreUnit so that multiplying  *)
(* by decay = n/2 stays exact for MaxUnlearnSteps updates.  A              *)
(* quotient of two tensors elements (mask_fn) is kept as a fraction        *)
(* [n, d]: d = 0 with n > 0 is +inf, 0/0 is NaN, as in IEEE arithmetic.    *)
(***************************************************************************)
EXTENDS Integers, Sequences, FiniteSets, TLC

(* ------------------------------ bounds --------------------------------- *)
\* number of steps of the unlearning loop (config.unlearn_steps is drawn from 0..MaxUnlearnSteps)
MaxUnlearnSteps == 4
\* largest config.disruption_score_warmup drawn
MaxWarmup == 2
\* largest pooled population of the threshold selection
MaxPop == 4

\* the parameter each element of the pooled intervened weights belongs to
\* (two intervened parameters, of one and of two elements)
ParamOf == <<1, 2, 2>>
NumWeights == Len(ParamOf)
Weights == 1..NumWeights
Params == {ParamOf[i] : i \in Weights}

\* the unlearning loops evaluate every EvalEvery steps (the literal 10 of
\* `if step % 10 == 0`, scaled down with the number of steps)
EvalEvery == 2
\* the stagnation rule's minimum step (the literal 30 of `step >= 30`, scaled down)
StallMinStep == 3
\* resolution of the fixed-point numbers a normalised gradient is kept in
GradUnit == 10
\* the forget losses one relearning attack returns (relearn_steps / 10 of them)
MaxRelearnEvals == 2
\* n_trials of study.optimize (the literals 300 and 3000, scaled down)
MaxTrials == 2

\* values a backward pass can leave in one element of a gradient
GradVals == {-1, 0, 1}
\* the gradients of the intervened weights the loops' batches produce
GradTensors == {<<0, 0, 0>>, <<1, -1, 0>>, <<-1, 1, 1>>}
\* the gradient of an adapter (one element stands for the adapter's tensors)
AdapterGrads == {<<1>>}
\* disruption_score_decay as a fraction, 0 <= decay < 1
Decays == {[n |-> 0, d |-> 2], [n |-> 1, d |-> 2]}
\* retain_amp (an exponent)
Amps == {1, 2}
\* the (decay, retain_amp) pairs the loops run with
ScoreCfgs == {<<[n |-> 0, d |-> 2], 1>>, <<[n |-> 1, d |-> 2], 2>>}
\* the thresholds of the angle mask, in degrees, and forget_thresh
AngleGrid == {0, 45, 90, 135, 180}
ForgetThreshs == {0, 1}
\* quantile as a fraction, 0 < quantile < 1
Quantiles == {[n |-> 1, d |-> 4], [n |-> 1, d |-> 2], [n |-> 3, d |-> 4]}
\* the parameters of the model whose names match target_modules, and the
\* names the circuit file has an entry for: all of them, no parameter
\* matching, the entry of the last parameter missing
SetupCfgs == {<<Params, Params>>, <<{}, Params>>, <<Params, Params \ {ParamOf[NumWeights]}>>}
\* the circuits (to_forget tensors) a run can load
Circuits == {<<1, -1, 0>>, <<2, 1, -1>>}

(* ---------------------------- arithmetic ------------------------------- *)
Abs(x) == IF x < 0 THEN -x ELSE x

RECURSIVE Pow(_, _)
Pow(x, n) == IF n = 0 THEN 1 ELSE x * Pow(x, n - 1)

RECURSIVE SumSeq(_)
SumSeq(s) == IF s = <<>> THEN 0 ELSE Head(s) + SumSeq(Tail(s))

\* None: a gradient slot set to None (zero_grad(set_to_none=True)), an unset local
None == <<>>

\* a fraction n/d with d >= 0; IEEE: x/0 = +inf for x > 0, 0/0 = NaN
Frac(n, d) == [n |-> n, d |-> d]
IsNaN(a) == a.n = 0 /\ a.d = 0
\* a < b as the tensor comparison computes it: false whenever one side is NaN
Lt(a, b) == ~IsNaN(a) /\ ~IsNaN(b) /\ a.n * b.d < b.n * a.d
Gt(a, b) == Lt(b, a)
SameVal(a, b) == ~IsNaN(a) /\ ~IsNaN(b) /\ a.n * b.d = b.n * a.d
\* the order kthvalue / sort select by: NaN counts as larger than every number
SortsBefore(a, b) == IF IsNaN(a) THEN FALSE ELSE IF IsNaN(b) THEN TRUE ELSE a.n * b.d < b.n * a.d
SortsSame(a, b) == (IsNaN(a) /\ IsNaN(b)) \/ SameVal(a, b)


(* ------------------- tensors with NaN-propagation ---------------------- *)
\* the NaN of a tensor element kept as an integer
NaNv == -99999
Num(x) == x # NaNv
NAdd(x, y) == IF Num(x) /\ Num(y) THEN x + y ELSE NaNv
NSub(x, y) == IF Num(x) /\ Num(y) THEN x - y ELSE NaNv
NMul(x, y) == IF Num(x) /\ Num(y) THEN x * y ELSE NaNv
\* x / y of two tensor elements as a fraction; NaN when an operand is NaN
NDiv(x, y) == IF Num(x) /\ Num(y) THEN Frac(x, y) ELSE Frac(0, 0)
\* tensor.abs() ** amp, elementwise
AbsPow(x, amp) == IF Num(x) THEN Pow(Abs(x), amp) ELSE NaNv
\* bool mask * number
MaskMul(m, x) == IF ~Num(x) THEN NaNv ELSE IF m THEN x ELSE 0

\* floor of the square root
ISqrt(n) == CHOOSE r \in 0..n : r * r <= n /\ n < (r + 1) * (r + 1)

\* all tensors over the pooled intervened weights with elements in S
Tensors(S) == [Weights -> S]
AsSeq(f) == [i \in Weights |-> f[i]]
ZerosLike == [i \in Weights |-> 0]

(* --------------------------- kthvalue ---------------------------------- *)
RECURSIVE Insert(_, _)
Insert(x, s) ==
    IF s = <<>> THEN <<x>>
    ELSE IF SortsBefore(x, Head(s)) THEN <<x>> \o s
    ELSE <<Head(s)>> \o Insert(x, Tail(s))

RECURSIVE Ascending(_)
Ascending(s) == IF s = <<>> THEN <<>> ELSE Insert(Head(s), Ascending(Tail(s)))

\* kthvalue counting from the largest element
kthvalue_largest(pool, k) == Ascending(pool)[Len(pool) + 1 - k]

\* torch.Tensor.kthvalue(k).values of a flat tensor `pool` (a sequence of
\* fractions), for 1 <= k <= numel: the k-th element in ascending order
kthvalue(pool, k) == Ascending(pool)[k]

(* ------------------------------ state ---------------------------------- *)
VARIABLES
    variant,          \* which script's loop runs
    cfg,              \* the hyperparameters of the trial (trial.suggest_*, config)
    step,             \* the loop variable
    pc,               \* the statement the script is at
    requires_grad,    \* the groups whose parameters have requires_grad = True
    active_adapters,  \* peft_model.set_adapter(...)
    W,                \* the intervened base weights (pooled), mutated in place
    ret_lora,         \* the retain adapter's weights (ret_lora / helper_lora)
    adv_lora,         \* the adversary adapter's weights
    grad,             \* the .grad slots of the three groups (None: no gradient)
    disruption_score, \* param.disruption_score, in units of 1/ScoreUnit
    circuit,          \* the global circuit; param.to_forget aliases its entries
    base_lr,          \* base_optimizer.param_groups[0]["lr"]
    threshold,        \* the local `threshold`
    mask,             \* the local `mask`, per element of the intervened weights
    res,              \* the local `res`: the last evaluation's results
    user_attrs,       \* trial.set_user_attr flags that are set to True
    hist,             \* the operations of the current step, in order
    scores,           \* the `scores` of "get mask" / "sparsify circuit"
    upd_grads,        \* the gradients of the first disruption-score updates
    log,              \* the messages the evaluation of the current trial logged
    forget_losses,    \* the local `forget_losses`: what relearn returned
    forget_loss,      \* the local `forget_loss` objective returns: <<>> unbound
    best_value,       \* the global `best_value`
    best_model_path,  \* the trials in which the best-model file was written
    trials,           \* study.trials: the outcomes of the finished trials
    empty_cache_calls \* the calls of pt.cuda.empty_cache() the process has made

vars == <<variant, cfg, step, pc, requires_grad, active_adapters, W, ret_lora,
          adv_lora, grad, disruption_score, circuit, base_lr, threshold, mask,
          res, user_attrs, hist, scores, upd_grads, log, forget_losses, forget_loss,
          best_value, best_model_path, trials, empty_cache_calls>>

\* what a trial leaves behind, and what the study keeps across trials
Outcome == <<log, forget_losses, forget_loss>>
Study == <<best_value, best_model_path, trials, empty_cache_calls>>
\* the start of objective(trial): nothing logged, no relearning attack run
TrialStart == log = <<>> /\ forget_losses = <<>> /\ forget_loss = <<>>
\* seek_and_destroy.py line 64 `best_value = 0`; no file written, no trial run
StudyStart == best_value = 0 /\ best_model_path = <<>> /\ trials = <<>> /\ empty_cache_calls = 0

Groups == {"base", "ret_lora", "adv_lora"}
ScoreUnit == Pow(2, MaxUnlearnSteps)
NoFrac == [n |-> 0, d |-> -1]
NoGrads == [g \in Groups |-> None]
NoRes == [k \in {} |-> 0]

\* the hyperparameters no variant reads unless it sets them
DefaultCfg ==
    [unlearn_steps |-> 0, disruption_score_warmup |-> 0, decay |-> [n |-> 0, d |-> 2],
     retain_amp |-> 1, forget_amp |-> 1, quantile |-> [n |-> 1, d |-> 2],
     unlearn_lr |-> 1, unlearn_lr_mult |-> 1, retaining_rate |-> 1, use_ret_lora |-> TRUE,
     forget_thresh |-> 0, alpha_thresh |-> 180, alpha_low_thresh |-> 0, grad_decay |-> [n |-> 0, d |-> 2],
     mask_bound |-> TRUE, interven_names |-> Params, circuit_names |-> Params]

\* the state every trial starts from: a freshly loaded model, zero scores
FreshModel ==
    /\ step = 0
    /\ W = ZerosLike
    /\ ret_lora = <<0>>
    /\ adv_lora = <<0>>
    /\ grad = NoGrads
    /\ disruption_score = ZerosLike
    /\ threshold = NoFrac
    /\ mask = <<>>
    /\ res = NoRes
    /\ user_attrs = {}
    /\ hist = <<>>
    /\ TrialStart
    /\ scores = <<>>
    /\ upd_grads = <<>>

(* ---------------------- shared tensor operations ----------------------- *)
\* update_disruption_score adding the gradient term before the decay
update_disruption_score_add_first(score, g, decay, amp) ==
    [i \in Weights |-> IF Num(score[i]) /\ Num(g[i])
                       THEN ((score[i] + AbsPow(g[i], amp) * ScoreUnit) * decay.n) \div decay.d
                       ELSE NaNv]

\* `param.disruption_score *= decay; param.disruption_score += param.grad.abs() ** amp`
update_disruption_score(score, g, decay, amp) ==
    [i \in Weights |-> NAdd(IF Num(score[i]) THEN (score[i] * decay.n) \div decay.d ELSE NaNv,
                            NMul(AbsPow(g[i], amp), ScoreUnit))]

\* torch.optim.SGD(params, lr).step() on one tensor: p -= lr * p.grad; a
\* parameter whose grad is None is skipped
sgd_step(p, g, lr) ==
    IF g = None THEN p ELSE [i \in DOMAIN p |-> NSub(p[i], NMul(lr, g[i]))]

\* torch.optim.Adam(params, lr).step() on an adapter: moves the adapter
\* against its gradient, skipping it when the grad is None
adam_step(p, g, lr) ==
    IF g = None THEN p ELSE [i \in DOMAIN p |-> NSub(p[i], NMul(lr, g[i]))]

\* loss.backward() after a forward pass: every group in `groups` (requires
\* grad and takes part in the pass) gets a gradient, accumulated into a slot
\* that is not None; NaN throughout once a weight is NaN
Backward(cur, groups, g_base, g_ad) ==
    LET fresh(g) == IF g = "base"
                    THEN (IF \E i \in Weights : ~Num(W[i]) THEN [i \in Weights |-> NaNv] ELSE AsSeq(g_base))
                    ELSE g_ad
    IN [g \in Groups |->
          IF g \notin groups THEN cur[g]
          ELSE IF cur[g] = None THEN fresh(g)
          ELSE [i \in DOMAIN cur[g] |-> NAdd(cur[g][i], fresh(g)[i])]]

\* quantile_k rounding up
quantile_k_ceil(quantile, numel) == (quantile.n * numel) \div quantile.d + 1

\* k = int(quantile * numel)
quantile_k(quantile, numel) == (quantile.n * numel) \div quantile.d

\* utils.model_operations.get_threshold(quantile, final_scores): the k-th
\* smallest of all the parameters' scores pooled, k = floor(quantile * numel)
get_threshold(quantile, final_scores) ==
    kthvalue(final_scores, quantile_k(quantile, Len(final_scores)))

\* the squared global norm, sum(p.grad.norm() ** 2 for p in interven_params)
norm_sq(g) == IF \E i \in DOMAIN g : ~Num(g[i]) THEN NaNv ELSE SumSeq([i \in DOMAIN g |-> g[i] * g[i]])

\* `p.grad /= grad_norm` with grad_norm = norm_sq ** 0.5, in units of
\* 1/GradUnit; x/0 of a zero gradient is NaN
normalize_gradients(g) ==
    LET sq == norm_sq(g)
        root == ISqrt(sq * GradUnit * GradUnit)
        sgn(x) == IF x < 0 THEN -1 ELSE 1
    IN [i \in DOMAIN g |->
          IF ~Num(sq) \/ sq = 0 THEN NaNv
          ELSE sgn(g[i]) * ((Abs(g[i]) * GradUnit * GradUnit) \div root)]

(* ------------- adversarial_adapters.py: objective(trial) --------------- *)
\* losses of an evaluation, in units of 0.05
init_forget == 60
init_retain == 60
\* `res["base_retain"] > init_retain + 0.1`
AA_retain_margin == 2
\* `res["base_forget"] < init_forget + 0.05`
AA_forget_margin == 1
\* `res["adv_forget"] > 50`
AA_adv_forget_limit == 1000
\* the losses eval_loss can return, given the finite ones: NaN always, and
\* nothing but NaN once a weight is NaN
AA_Loss(finite) == IF \E i \in Weights : ~Num(W[i]) THEN {NaNv} ELSE finite \cup {NaNv}
\* `a > b` / `a < b` of two losses: False when one is NaN
LossGt(a, b) == Num(a) /\ Num(b) /\ a > b
LossLt(a, b) == Num(a) /\ Num(b) /\ a < b

\* lines 121-125: `for step in range(1, 1 + config.unlearn_steps)`
AA_for_step ==
    /\ variant = "adapters" /\ pc = "loop"
    /\ IF step < cfg.unlearn_steps
       THEN /\ step' = step + 1
            /\ pc' = "retain"
            /\ hist' = <<>>
            /\ threshold' = NoFrac
            /\ mask' = <<>>
            /\ res' = NoRes
       ELSE /\ pc' = "relearn"
            /\ UNCHANGED <<step, hist, threshold, mask, res>>
    /\ UNCHANGED <<Outcome, Study, variant, cfg, requires_grad, active_adapters, W, ret_lora, adv_lora,
                   grad, disruption_score, circuit, base_lr, user_attrs, scores, upd_grads>>

\* lines 126-131: set_adapter, only_grad_on, zero_grad, forward, backward on a retain batch
AA_retain_forward_backward ==
    /\ variant = "adapters" /\ pc = "retain"
    /\ active_adapters' = {"ret_lora"}
    /\ requires_grad' = {"base", "ret_lora"}
    /\ \E g \in GradTensors, ga \in AdapterGrads :
          grad' = Backward(NoGrads, requires_grad' \cap ({"base"} \cup active_adapters'), g, ga)
    /\ hist' = Append(hist, "retain_fb")
    /\ pc' = "scores"
    /\ UNCHANGED <<Outcome, Study, variant, cfg, step, W, ret_lora, adv_lora, disruption_score, circuit,
                   base_lr, threshold, mask, res, user_attrs, scores, upd_grads>>

\* lines 132-137: update the disruption scores, then `continue` during warmup
AA_update_disruption_scores ==
    /\ variant = "adapters" /\ pc = "scores"
    /\ disruption_score' = update_disruption_score(disruption_score, grad["base"], cfg.decay, cfg.retain_amp)
    /\ upd_grads' = IF step <= 2 THEN Append(upd_grads, grad["base"]) ELSE upd_grads
    /\ hist' = Append(hist, "score_update")
    /\ pc' = IF step <= cfg.disruption_score_warmup THEN "loop" ELSE "retain_opt"
    /\ UNCHANGED <<Outcome, Study, variant, cfg, step, requires_grad, active_adapters, W, ret_lora, adv_lora,
                   grad, circuit, base_lr, threshold, mask, res, user_attrs, scores>>

\* AA_ret_optimizer_step of an optimizer built over the base weights too
AA_ret_optimizer_step_with_base ==
    /\ variant = "adapters" /\ pc = "retain_opt"
    /\ ret_lora' = adam_step(ret_lora, grad["ret_lora"], cfg.retaining_rate)
    /\ W' = sgd_step(W, grad["base"], cfg.retaining_rate)
    /\ hist' = Append(hist, "retain_opt")
    /\ pc' = "unlearn"
    /\ UNCHANGED <<Outcome, Study, variant, cfg, step, requires_grad, active_adapters, adv_lora, grad,
                   disruption_score, circuit, base_lr, threshold, mask, res, user_attrs,
                   scores, upd_grads>>

\* line 141: ret_optimizer.step()
AA_ret_optimizer_step ==
    /\ variant = "adapters" /\ pc = "retain_opt"
    /\ ret_lora' = adam_step(ret_lora, grad["ret_lora"], cfg.retaining_rate)
    /\ hist' = Append(hist, "retain_opt")
    /\ pc' = "unlearn"
    /\ UNCHANGED <<Outcome, Study, variant, cfg, step, requires_grad, active_adapters, W, adv_lora, grad,
                   disruption_score, circuit, base_lr, threshold, mask, res, user_attrs,
                   scores, upd_grads>>

\* AA_unlearn_forward_backward without its only_grad_on call
AA_unlearn_forward_backward_no_only_grad_on ==
    /\ variant = "adapters" /\ pc = "unlearn"
    /\ base_lr' = base_lr * cfg.unlearn_lr_mult
    /\ active_adapters' = {"ret_lora", "adv_lora"}
    /\ requires_grad' = requires_grad
    /\ \E g \in GradTensors, ga \in AdapterGrads :
          grad' = Backward(NoGrads, requires_grad' \cap ({"base"} \cup active_adapters'), g, ga)
    /\ hist' = Append(hist, "unlearn_fb")
    /\ pc' = "mask"
    /\ UNCHANGED <<Outcome, Study, variant, cfg, step, W, ret_lora, adv_lora, disruption_score, circuit,
                   threshold, mask, res, user_attrs, scores, upd_grads>>

\* lines 143-149: lr *= unlearn_lr_mult, set_adapter, only_grad_on, zero_grad,
\* forward, backward on a forget batch
AA_unlearn_forward_backward ==
    /\ variant = "adapters" /\ pc = "unlearn"
    /\ base_lr' = base_lr * cfg.unlearn_lr_mult
    /\ active_adapters' = {"ret_lora", "adv_lora"}
    /\ requires_grad' = {"base"}
    /\ \E g \in GradTensors, ga \in AdapterGrads :
          grad' = Backward(NoGrads, requires_grad' \cap ({"base"} \cup active_adapters'), g, ga)
    /\ hist' = Append(hist, "unlearn_fb")
    /\ pc' = "mask"
    /\ UNCHANGED <<Outcome, Study, variant, cfg, step, W, ret_lora, adv_lora, disruption_score, circuit,
                   threshold, mask, res, user_attrs, scores, upd_grads>>

\* line 85: mask_fn = lambda param: param.disruption_score / param.grad.abs() ** forget_amp
AA_mask_fn(i) == NDiv(disruption_score[i], AbsPow(grad["base"][i], cfg.forget_amp))

\* lines 150-160: threshold, mask, `param.grad *= mask`, normalise the gradients
AA_apply_mask ==
    /\ variant = "adapters" /\ pc = "mask"
    /\ LET final_scores == [i \in Weights |-> AA_mask_fn(i)]
           k == quantile_k(cfg.quantile, Len(final_scores))
       IN IF k \notin 1..Len(final_scores)
          THEN \* kthvalue raises: the exception leaves objective
               /\ pc' = "error"
               /\ UNCHANGED <<threshold, mask, grad, hist>>
          ELSE /\ threshold' = get_threshold(cfg.quantile, final_scores)
               /\ mask' = [i \in Weights |-> Lt(final_scores[i], threshold')]
               /\ grad' = [grad EXCEPT !["base"] =
                              normalize_gradients([i \in Weights |-> MaskMul(mask'[i], grad["base"][i])])]
               /\ hist' = Append(hist, "mask")
               /\ pc' = "unlearn_opt"
    /\ UNCHANGED <<Outcome, Study, variant, cfg, step, requires_grad, active_adapters, W, ret_lora, adv_lora,
                   disruption_score, circuit, base_lr, res, user_attrs, scores, upd_grads>>

\* line 162: base_optimizer.step()
AA_base_optimizer_step ==
    /\ variant = "adapters" /\ pc = "unlearn_opt"
    /\ W' = sgd_step(W, grad["base"], base_lr)
    /\ hist' = Append(hist, "unlearn_opt")
    /\ pc' = "adv"
    /\ UNCHANGED <<Outcome, Study, variant, cfg, step, requires_grad, active_adapters, ret_lora, adv_lora, grad,
                   disruption_score, circuit, base_lr, threshold, mask, res, user_attrs,
                   scores, upd_grads>>

\* lines 164-169: set_adapter, only_grad_on, zero_grad, forward, backward on the forget batch
AA_adv_forward_backward ==
    /\ variant = "adapters" /\ pc = "adv"
    /\ active_adapters' = {"ret_lora", "adv_lora"}
    /\ requires_grad' = {"adv_lora"}
    /\ \E g \in GradTensors, ga \in AdapterGrads :
          grad' = Backward(NoGrads, requires_grad' \cap ({"base"} \cup active_adapters'), g, ga)
    /\ hist' = Append(hist, "adv_fb")
    /\ pc' = "adv_opt"
    /\ UNCHANGED <<Outcome, Study, variant, cfg, step, W, ret_lora, adv_lora, disruption_score, circuit,
                   base_lr, threshold, mask, res, user_attrs, scores, upd_grads>>

\* AA_adv_optimizer_step with `if step % 10 == 1`
AA_adv_optimizer_step_eval_off_by_one ==
    /\ variant = "adapters" /\ pc = "adv_opt"
    /\ adv_lora' = adam_step(adv_lora, grad["adv_lora"], cfg.retaining_rate)
    /\ hist' = Append(hist, "adv_opt")
    /\ pc' = IF step % EvalEvery = 1 THEN "eval" ELSE "loop"
    /\ UNCHANGED <<Outcome, Study, variant, cfg, step, requires_grad, active_adapters, W, ret_lora, grad,
                   disruption_score, circuit, base_lr, threshold, mask, res, user_attrs,
                   scores, upd_grads>>

\* line 170: adv_optimizer.step(); line 173: `if step % 10 == 0`
AA_adv_optimizer_step ==
    /\ variant = "adapters" /\ pc = "adv_opt"
    /\ adv_lora' = adam_step(adv_lora, grad["adv_lora"], cfg.retaining_rate)
    /\ hist' = Append(hist, "adv_opt")
    /\ pc' = IF step % EvalEvery = 0 THEN "eval" ELSE "loop"
    /\ UNCHANGED <<Outcome, Study, variant, cfg, step, requires_grad, active_adapters, W, ret_lora, grad,
                   disruption_score, circuit, base_lr, threshold, mask, res, user_attrs,
                   scores, upd_grads>>

\* AA_eval with the NaN rule ahead of the three others
AA_eval_nan_first ==
    /\ variant = "adapters" /\ pc = "eval"
    /\ \E bf \in AA_Loss({init_forget, init_forget + 1}), br \in AA_Loss({init_retain, init_retain + 3}),
          af \in AA_Loss({init_forget, AA_adv_forget_limit + 1}), ar \in AA_Loss({init_retain}) :
          /\ res' = [base_forget |-> bf, base_retain |-> br, adv_forget |-> af, adv_retain |-> ar]
          /\ IF (\A v \in {bf, br, af, ar} : Num(v)) /\ LossGt(br, init_retain + AA_retain_margin)
             THEN /\ log' = Append(log, "Retain performance broken")
                  /\ user_attrs' = user_attrs \cup {"retain_broken"} /\ pc' = "pruned"
             ELSE IF (\A v \in {bf, br, af, ar} : Num(v)) /\ step >= StallMinStep /\ LossLt(bf, init_forget + AA_forget_margin)
             THEN /\ log' = Append(log, "Forget loss stalled")
                  /\ user_attrs' = user_attrs /\ pc' = "pruned"
             ELSE IF (\A v \in {bf, br, af, ar} : Num(v)) /\ LossGt(af, AA_adv_forget_limit)
             THEN /\ log' = Append(log, "Adversarial LoRA defeaten")
                  /\ user_attrs' = user_attrs \cup {"lora_defeaten"} /\ pc' = "pruned"
             ELSE IF \E v \in {bf, br, af, ar} : ~Num(v)
             THEN /\ log' = Append(log, "NaN in eval results")
                  /\ user_attrs' = user_attrs /\ pc' = "pruned"
             ELSE log' = log /\ user_attrs' = user_attrs /\ pc' = "loop"
    /\ active_adapters' = {"ret_lora", "adv_lora"}
    /\ hist' = Append(hist, "eval")
    /\ UNCHANGED <<forget_losses, forget_loss, Study, variant, cfg, step, requires_grad, W, ret_lora, adv_lora, grad,
                   disruption_score, circuit, base_lr, threshold, mask, scores, upd_grads>>

\* AA_eval with the retain rule waiting for the stagnation rule's minimum step
AA_eval_retain_late ==
    /\ variant = "adapters" /\ pc = "eval"
    /\ \E bf \in AA_Loss({init_forget, init_forget + 1}), br \in AA_Loss({init_retain, init_retain + 3}),
          af \in AA_Loss({init_forget, AA_adv_forget_limit + 1}), ar \in AA_Loss({init_retain}) :
          /\ res' = [base_forget |-> bf, base_retain |-> br, adv_forget |-> af, adv_retain |-> ar]
          /\ IF step >= StallMinStep /\ LossGt(br, init_retain + AA_retain_margin)
             THEN /\ log' = Append(log, "Retain performance broken")
                  /\ user_attrs' = user_attrs \cup {"retain_broken"} /\ pc' = "pruned"
             ELSE IF step >= StallMinStep /\ LossLt(bf, init_forget + AA_forget_margin)
             THEN /\ log' = Append(log, "Forget loss stalled")
                  /\ user_attrs' = user_attrs /\ pc' = "pruned"
             ELSE IF LossGt(af, AA_adv_forget_limit)
             THEN /\ log' = Append(log, "Adversarial LoRA defeaten")
                  /\ user_attrs' = user_attrs \cup {"lora_defeaten"} /\ pc' = "pruned"
             ELSE IF \E v \in {bf, br, af, ar} : ~Num(v)
             THEN /\ log' = Append(log, "NaN in eval results")
                  /\ user_attrs' = user_attrs /\ pc' = "pruned"
             ELSE log' = log /\ user_attrs' = user_attrs /\ pc' = "loop"
    /\ active_adapters' = {"ret_lora", "adv_lora"}
    /\ hist' = Append(hist, "eval")
    /\ UNCHANGED <<forget_losses, forget_loss, Study, variant, cfg, step, requires_grad, W, ret_lora, adv_lora, grad,
                   disruption_score, circuit, base_lr, threshold, mask, scores, upd_grads>>

\* AA_eval with `if res["adv_forget"] < 50`
AA_eval_adv_below ==
    /\ variant = "adapters" /\ pc = "eval"
    /\ \E bf \in AA_Loss({init_forget, init_forget + 1}), br \in AA_Loss({init_retain, init_retain + 3}),
          af \in AA_Loss({init_forget, AA_adv_forget_limit + 1}), ar \in AA_Loss({init_retain}) :
          /\ res' = [base_forget |-> bf, base_retain |-> br, adv_forget |-> af, adv_retain |-> ar]
          /\ IF LossGt(br, init_retain + AA_retain_margin)
             THEN /\ log' = Append(log, "Retain performance broken")
                  /\ user_attrs' = user_attrs \cup {"retain_broken"} /\ pc' = "pruned"
             ELSE IF step >= StallMinStep /\ LossLt(bf, init_forget + AA_forget_margin)
             THEN /\ log' = Append(log, "Forget loss stalled")
                  /\ user_attrs' = user_attrs /\ pc' = "pruned"
             ELSE IF LossLt(af, AA_adv_forget_limit)
             THEN /\ log' = Append(log, "Adversarial LoRA defeaten")
                  /\ user_attrs' = user_attrs \cup {"lora_defeaten"} /\ pc' = "pruned"
             ELSE IF \E v \in {bf, br, af, ar} : ~Num(v)
             THEN /\ log' = Append(log, "NaN in eval results")
                  /\ user_attrs' = user_attrs /\ pc' = "pruned"
             ELSE log' = log /\ user_attrs' = user_attrs /\ pc' = "loop"
    /\ active_adapters' = {"ret_lora", "adv_lora"}
    /\ hist' = Append(hist, "eval")
    /\ UNCHANGED <<forget_losses, forget_loss, Study, variant, cfg, step, requires_grad, W, ret_lora, adv_lora, grad,
                   disruption_score, circuit, base_lr, threshold, mask, scores, upd_grads>>

\* AA_eval with the stagnation rule without `step >= 30`
AA_eval_stall_any_step ==
    /\ variant = "adapters" /\ pc = "eval"
    /\ \E bf \in AA_Loss({init_forget, init_forget + 1}), br \in AA_Loss({init_retain, init_retain + 3}),
          af \in AA_Loss({init_forget, AA_adv_forget_limit + 1}), ar \in AA_Loss({init_retain}) :
          /\ res' = [base_forget |-> bf, base_retain |-> br, adv_forget |-> af, adv_retain |-> ar]
          /\ IF LossGt(br, init_retain + AA_retain_margin)
             THEN /\ log' = Append(log, "Retain performance broken")
                  /\ user_attrs' = user_attrs \cup {"retain_broken"} /\ pc' = "pruned"
             ELSE IF LossLt(bf, init_forget + AA_forget_margin)
             THEN /\ log' = Append(log, "Forget loss stalled")
                  /\ user_attrs' = user_attrs /\ pc' = "pruned"
             ELSE IF LossGt(af, AA_adv_forget_limit)
             THEN /\ log' = Append(log, "Adversarial LoRA defeaten")
                  /\ user_attrs' = user_attrs \cup {"lora_defeaten"} /\ pc' = "pruned"
             ELSE IF \E v \in {bf, br, af, ar} : ~Num(v)
             THEN /\ log' = Append(log, "NaN in eval results")
                  /\ user_attrs' = user_attrs /\ pc' = "pruned"
             ELSE log' = log /\ user_attrs' = user_attrs /\ pc' = "loop"
    /\ active_adapters' = {"ret_lora", "adv_lora"}
    /\ hist' = Append(hist, "eval")
    /\ UNCHANGED <<forget_losses, forget_loss, Study, variant, cfg, step, requires_grad, W, ret_lora, adv_lora, grad,
                   disruption_score, circuit, base_lr, threshold, mask, scores, upd_grads>>

\* lines 172-202: the evaluation and the pruning rules, in the order of the code
AA_eval ==
    /\ variant = "adapters" /\ pc = "eval"
    /\ \E bf \in AA_Loss({init_forget, init_forget + 1}), br \in AA_Loss({init_retain, init_retain + 3}),
          af \in AA_Loss({init_forget, AA_adv_forget_limit + 1}), ar \in AA_Loss({init_retain}) :
          /\ res' = [base_forget |-> bf, base_retain |-> br, adv_forget |-> af, adv_retain |-> ar]
          /\ IF LossGt(br, init_retain + AA_retain_margin)
             THEN /\ log' = Append(log, "Retain performance broken")
                  /\ user_attrs' = user_attrs \cup {"retain_broken"} /\ pc' = "pruned"
             ELSE IF step >= StallMinStep /\ LossLt(bf, init_forget + AA_forget_margin)
             THEN /\ log' = Append(log, "Forget loss stalled")
                  /\ user_attrs' = user_attrs /\ pc' = "pruned"
             ELSE IF LossGt(af, AA_adv_forget_limit)
             THEN /\ log' = Append(log, "Adversarial LoRA defeaten")
                  /\ user_attrs' = user_attrs \cup {"lora_defeaten"} /\ pc' = "pruned"
             ELSE IF \E v \in {bf, br, af, ar} : ~Num(v)
             THEN /\ log' = Append(log, "NaN in eval results")
                  /\ user_attrs' = user_attrs /\ pc' = "pruned"
             ELSE log' = log /\ user_attrs' = user_attrs /\ pc' = "loop"
    /\ active_adapters' = {"ret_lora", "adv_lora"}
    /\ hist' = Append(hist, "eval")
    /\ UNCHANGED <<forget_losses, forget_loss, Study, variant, cfg, step, requires_grad, W, ret_lora, adv_lora, grad,
                   disruption_score, circuit, base_lr, threshold, mask, scores, upd_grads>>

\* the forget losses a relearning attack logs, in units of 0.05
RelearnLoss == {init_forget - 1, init_forget}
\* relearn(model, config, ...): the trajectory of the forget losses observed
\* during the attack, one per evaluation of the relearning loop
relearn == [1..MaxRelearnEvals -> RelearnLoss]

\* python's min(iterable) returning the last loss instead
min_last(xs) == xs[Len(xs)]

\* python's min(iterable): the first element, replaced by each later element
\* that compares smaller
RECURSIVE min(_)
min(xs) ==
    IF Len(xs) = 1 THEN xs[1]
    ELSE LET m == min(SubSeq(xs, 1, Len(xs) - 1))
         IN IF xs[Len(xs)] < m THEN xs[Len(xs)] ELSE m

\* lines 204-208: collapse the adapters, run the relearning attack, return its
\* loss (relearn handing back the minimum of its trajectory)
AA_relearn ==
    /\ variant = "adapters" /\ pc = "relearn"
    /\ \E traj \in relearn :
          /\ forget_losses' = traj
          /\ forget_loss' = <<min(traj)>>
    /\ pc' = "done"
    /\ UNCHANGED <<log, Study, variant, cfg, step, requires_grad, active_adapters, W, ret_lora, adv_lora,
                   grad, disruption_score, circuit, base_lr, threshold, mask, res, user_attrs,
                   hist, scores, upd_grads>>

NextAdapters ==
    \/ AA_for_step
    \/ AA_retain_forward_backward
    \/ AA_update_disruption_scores
    \/ AA_ret_optimizer_step
    \/ AA_unlearn_forward_backward
    \/ AA_apply_mask
    \/ AA_base_optimizer_step
    \/ AA_adv_forward_backward
    \/ AA_adv_optimizer_step
    \/ AA_eval
    \/ AA_relearn

\* lines 72-117: the trial's hyperparameters, a fresh model with both adapters,
\* the optimizers, zero disruption scores
InitAdapters ==
    /\ variant = "adapters"
    /\ \E us \in {0, MaxUnlearnSteps}, wu \in 0..MaxWarmup, q \in Quantiles, sc \in ScoreCfgs :
          cfg = [DefaultCfg EXCEPT !.unlearn_steps = us, !.disruption_score_warmup = wu,
                                   !.quantile = q, !.decay = sc[1], !.retain_amp = sc[2]]
    /\ pc = "loop"
    /\ requires_grad = {"adv_lora", "ret_lora"}
    /\ active_adapters = {"adv_lora"}
    /\ circuit = <<>>
    /\ base_lr = cfg.unlearn_lr
    /\ FreshModel

(* --------------- seek_and_destroy.py: objective(trial) ----------------- *)
\* what no action of the two seek_and_destroy loops assigns
SD_frame == <<Study, variant, cfg, requires_grad, active_adapters, adv_lora, circuit, scores>>

\* SD_for_step over `range(1, 2 + config.unlearn_steps)`
SD_for_step_inclusive ==
    /\ variant = "seek" /\ pc = "loop"
    /\ IF step <= cfg.unlearn_steps
       THEN /\ step' = step + 1
            /\ pc' = "retain"
            /\ hist' = <<>>
            /\ threshold' = NoFrac
            /\ mask' = <<>>
       ELSE /\ pc' = "relearn"
            /\ UNCHANGED <<step, hist, threshold, mask>>
    /\ UNCHANGED <<Outcome, SD_frame, W, ret_lora, grad, disruption_score, base_lr, res, user_attrs, upd_grads>>

\* lines 116-118: `for step in range(1, 1 + config.unlearn_steps)`
SD_for_step ==
    /\ variant = "seek" /\ pc = "loop"
    /\ IF step < cfg.unlearn_steps
       THEN /\ step' = step + 1
            /\ pc' = "retain"
            /\ hist' = <<>>
            /\ threshold' = NoFrac
            /\ mask' = <<>>
       ELSE /\ pc' = "relearn"
            /\ UNCHANGED <<step, hist, threshold, mask>>
    /\ UNCHANGED <<Outcome, SD_frame, W, ret_lora, grad, disruption_score, base_lr, res, user_attrs, upd_grads>>

\* SD_retain_forward_backward with the warmup `continue` before the score update
SD_retain_forward_backward_continue ==
    /\ variant = "seek" /\ pc = "retain"
    /\ \E g \in GradTensors, ga \in AdapterGrads :
          grad' = Backward(NoGrads, requires_grad \cap ({"base"} \cup active_adapters), g, ga)
    /\ hist' = Append(hist, "retain_fb")
    /\ pc' = IF step <= cfg.disruption_score_warmup THEN "loop" ELSE "scores"
    /\ UNCHANGED <<Outcome, SD_frame, step, W, ret_lora, disruption_score, base_lr, threshold, mask,
                   res, user_attrs, upd_grads>>

\* lines 120-123: zero_grad, forward, backward on a retain batch; every
\* parameter requires grad (lines 100-102)
SD_retain_forward_backward ==
    /\ variant = "seek" /\ pc = "retain"
    /\ \E g \in GradTensors, ga \in AdapterGrads :
          grad' = Backward(NoGrads, requires_grad \cap ({"base"} \cup active_adapters), g, ga)
    /\ hist' = Append(hist, "retain_fb")
    /\ pc' = "scores"
    /\ UNCHANGED <<Outcome, SD_frame, step, W, ret_lora, disruption_score, base_lr, threshold, mask,
                   res, user_attrs, upd_grads>>

\* SD_update_disruption_scores with `step < config.disruption_score_warmup`
SD_update_disruption_scores_short_warmup ==
    /\ variant = "seek" /\ pc = "scores"
    /\ disruption_score' = update_disruption_score(disruption_score, grad["base"], cfg.decay, cfg.retain_amp)
    /\ upd_grads' = IF step <= 2 THEN Append(upd_grads, grad["base"]) ELSE upd_grads
    /\ hist' = Append(hist, "score_update")
    /\ pc' = IF step < cfg.disruption_score_warmup THEN "loop" ELSE "retain_opt"
    /\ UNCHANGED <<Outcome, SD_frame, step, W, ret_lora, grad, base_lr, threshold, mask, res, user_attrs>>

\* lines 124-128: update the disruption scores, then `continue` during warmup
SD_update_disruption_scores ==
    /\ variant = "seek" /\ pc = "scores"
    /\ disruption_score' = update_disruption_score(disruption_score, grad["base"], cfg.decay, cfg.retain_amp)
    /\ upd_grads' = IF step <= 2 THEN Append(upd_grads, grad["base"]) ELSE upd_grads
    /\ hist' = Append(hist, "score_update")
    /\ pc' = IF step <= cfg.disruption_score_warmup THEN "loop" ELSE "retain_opt"
    /\ UNCHANGED <<Outcome, SD_frame, step, W, ret_lora, grad, base_lr, threshold, mask, res, user_attrs>>

\* line 137: `if res.get("retain_loss_ok", True)`; line 152: `if step % 10 == 0`
SD_retain_loss_ok == IF "retain_loss_ok" \in DOMAIN res THEN res["retain_loss_ok"] ELSE TRUE
SD_after_unlearn == IF step % EvalEvery = 0 THEN "eval" ELSE "loop"

\* SD_retain_optimizer_step going on to the unlearn sub-step whatever `res` says
SD_retain_optimizer_step_no_valve ==
    /\ variant = "seek" /\ pc = "retain_opt"
    /\ IF cfg.use_ret_lora
       THEN /\ ret_lora' = sgd_step(ret_lora, grad["ret_lora"], cfg.retaining_rate)
            /\ UNCHANGED <<W, base_lr>>
       ELSE /\ base_lr' = cfg.unlearn_lr
            /\ W' = sgd_step(W, grad["base"], base_lr')
            /\ UNCHANGED ret_lora
    /\ hist' = Append(hist, "retain_opt")
    /\ pc' = "mask"
    /\ UNCHANGED <<Outcome, SD_frame, step, grad, disruption_score, threshold, mask, res, user_attrs, upd_grads>>

\* lines 129-137: the retain optimizer step, on the adapter or on the base weights
SD_retain_optimizer_step ==
    /\ variant = "seek" /\ pc = "retain_opt"
    /\ IF cfg.use_ret_lora
       THEN /\ ret_lora' = sgd_step(ret_lora, grad["ret_lora"], cfg.retaining_rate)
            /\ UNCHANGED <<W, base_lr>>
       ELSE /\ base_lr' = cfg.unlearn_lr
            /\ W' = sgd_step(W, grad["base"], base_lr')
            /\ UNCHANGED ret_lora
    /\ hist' = Append(hist, "retain_opt")
    /\ pc' = IF SD_retain_loss_ok THEN "mask" ELSE SD_after_unlearn
    /\ UNCHANGED <<Outcome, SD_frame, step, grad, disruption_score, threshold, mask, res, user_attrs, upd_grads>>

\* line 110: mask_fn = lambda param: param.disruption_score / param.to_forget.abs() ** forget_amp
SD_mask_fn(i) == NDiv(disruption_score[i], AbsPow(circuit[i], cfg.forget_amp))

\* SD_apply_mask masking the gradient of the loss, `param.grad *= mask`
SD_apply_mask_loss_gradient ==
    /\ variant = "seek" /\ pc = "mask"
    /\ LET final_scores == [i \in Weights |-> SD_mask_fn(i)]
           k == quantile_k(cfg.quantile, Len(final_scores))
       IN IF k \notin 1..Len(final_scores)
          THEN /\ pc' = "error"
               /\ UNCHANGED <<threshold, mask, grad, hist, base_lr>>
          ELSE /\ threshold' = get_threshold(cfg.quantile, final_scores)
               /\ mask' = [i \in Weights |-> Lt(final_scores[i], threshold')]
               /\ grad' = [NoGrads EXCEPT !["base"] = [i \in Weights |-> MaskMul(mask'[i], grad["base"][i])]]
               /\ base_lr' = cfg.unlearn_lr
               /\ hist' = Append(hist, "mask")
               /\ pc' = "unlearn_opt"
    /\ UNCHANGED <<Outcome, SD_frame, step, W, ret_lora, disruption_score, res, user_attrs, upd_grads>>

\* SD_apply_mask with `param.grad = param.to_forget; param.grad *= mask`, which
\* writes through the alias into the circuit
SD_apply_mask_in_place ==
    /\ variant = "seek" /\ pc = "mask"
    /\ LET final_scores == [i \in Weights |-> SD_mask_fn(i)]
           k == quantile_k(cfg.quantile, Len(final_scores))
       IN IF k \notin 1..Len(final_scores)
          THEN /\ pc' = "error"
               /\ UNCHANGED <<threshold, mask, grad, hist, base_lr, circuit>>
          ELSE /\ threshold' = get_threshold(cfg.quantile, final_scores)
               /\ mask' = [i \in Weights |-> Lt(final_scores[i], threshold')]
               /\ grad' = [NoGrads EXCEPT !["base"] = [i \in Weights |-> MaskMul(mask'[i], circuit[i])]]
               /\ circuit' = grad'["base"]
               /\ base_lr' = cfg.unlearn_lr
               /\ hist' = Append(hist, "mask")
               /\ pc' = "unlearn_opt"
    /\ UNCHANGED <<Outcome, Study, variant, cfg, requires_grad, active_adapters, adv_lora, scores,
                   step, W, ret_lora, disruption_score, res, user_attrs, upd_grads>>

\* lines 140-148: threshold, zero_grad, `param.grad = mask * param.to_forget`
SD_apply_mask ==
    /\ variant = "seek" /\ pc = "mask"
    /\ LET final_scores == [i \in Weights |-> SD_mask_fn(i)]
           k == quantile_k(cfg.quantile, Len(final_scores))
       IN IF k \notin 1..Len(final_scores)
          THEN /\ pc' = "error"
               /\ UNCHANGED <<threshold, mask, grad, hist, base_lr>>
          ELSE /\ threshold' = get_threshold(cfg.quantile, final_scores)
               /\ mask' = [i \in Weights |-> Lt(final_scores[i], threshold')]
               /\ grad' = [NoGrads EXCEPT !["base"] = [i \in Weights |-> MaskMul(mask'[i], circuit[i])]]
               /\ base_lr' = cfg.unlearn_lr
               /\ hist' = Append(hist, "mask")
               /\ pc' = "unlearn_opt"
    /\ UNCHANGED <<Outcome, SD_frame, step, W, ret_lora, disruption_score, res, user_attrs, upd_grads>>

\* line 149: base_optimizer.step()
SD_base_optimizer_step ==
    /\ variant = "seek" /\ pc = "unlearn_opt"
    /\ W' = sgd_step(W, grad["base"], base_lr)
    /\ hist' = Append(hist, "unlearn_opt")
    /\ pc' = SD_after_unlearn
    /\ UNCHANGED <<Outcome, SD_frame, step, ret_lora, grad, disruption_score, base_lr, threshold, mask,
                   res, user_attrs, upd_grads>>

\* `retain_loss_ok` of utils.training.eval_: the retain loss has not degraded
SD_retain_margin == 1
\* utils.training.eval_(model, f_eval_batch, r_eval_batch, init_retain, step):
\* the forget and the retain loss of the model and whether the retain loss is ok
eval_(f_loss, r_loss) ==
    [forget_loss |-> f_loss, retain_loss |-> r_loss,
     retain_loss_ok |-> LossLt(r_loss, init_retain + SD_retain_margin)]

\* the losses the evaluation of seek_and_destroy*.py can see
SD_ForgetLoss == {init_forget + 1, NaNv}
SD_RetainLoss == {init_retain, init_retain + 3, NaNv}

\* lines 151-153: `res = eval_(model, f_eval_batch, r_eval_batch, init_retain, step)`
SD_eval ==
    /\ variant = "seek" /\ pc = "eval"
    /\ \E fl \in SD_ForgetLoss, rl \in SD_RetainLoss :
          /\ res' = eval_(fl, rl)
          /\ pc' = IF Num(fl) /\ Num(rl) THEN "loop" ELSE "pruned"
    /\ hist' = Append(hist, "eval")
    /\ UNCHANGED <<Outcome, SD_frame, step, W, ret_lora, grad, disruption_score, base_lr, threshold, mask,
                   user_attrs, upd_grads>>

\* SD_relearn with `if forget_loss >= best_value`
SD_relearn_save_on_tie ==
    /\ variant = "seek" /\ pc = "relearn"
    /\ \E traj \in relearn :
          /\ forget_losses' = traj
          /\ forget_loss' = <<min(forget_losses')>>
    /\ IF forget_loss'[1] >= best_value
       THEN /\ best_value' = forget_loss'[1]
            /\ best_model_path' = Append(best_model_path, Len(trials) + 1)
       ELSE UNCHANGED <<best_value, best_model_path>>
    /\ pc' = "done"
    /\ UNCHANGED <<log, trials, empty_cache_calls, variant, cfg, requires_grad, active_adapters, adv_lora, circuit, scores,
                   step, W, ret_lora, grad, disruption_score, base_lr, threshold, mask,
                   res, user_attrs, hist, upd_grads>>

\* lines 156-172: collapse the adapter, run the relearning attack, keep the best model
SD_relearn ==
    /\ variant = "seek" /\ pc = "relearn"
    /\ \E traj \in relearn :
          /\ forget_losses' = traj
          /\ forget_loss' = <<min(forget_losses')>>
    /\ IF forget_loss'[1] > best_value
       THEN /\ best_value' = forget_loss'[1]
            /\ best_model_path' = Append(best_model_path, Len(trials) + 1)
       ELSE UNCHANGED <<best_value, best_model_path>>
    /\ pc' = "done"
    /\ UNCHANGED <<log, trials, empty_cache_calls, variant, cfg, requires_grad, active_adapters, adv_lora, circuit, scores,
                   step, W, ret_lora, grad, disruption_score, base_lr, threshold, mask,
                   res, user_attrs, hist, upd_grads>>

\* SD_setup with a circuit that yields an entry for any name and optimizers
\* that take an empty parameter list
SD_setup_unchecked ==
    /\ variant = "seek" /\ pc = "setup"
    /\ IF FALSE
       THEN pc' = "error" /\ UNCHANGED <<requires_grad, active_adapters>>
       ELSE /\ requires_grad' = {"base", "ret_lora"}
            /\ active_adapters' = {"ret_lora"}
            /\ pc' = "loop"
    /\ UNCHANGED <<Outcome, Study, variant, cfg, adv_lora, circuit, scores, step, W, ret_lora, grad,
                   disruption_score, base_lr, threshold, mask, res, user_attrs, hist, upd_grads>>

\* lines 85-110: the intervened parameters with zero scores and to_forget =
\* circuit[name] (KeyError when the circuit has no such name), the retain
\* adapter, requires_grad on every parameter, the two optimizers
\* (pt.optim.SGD raises ValueError on an empty parameter list)
SD_setup ==
    /\ variant = "seek" /\ pc = "setup"
    /\ IF ~(cfg.interven_names \subseteq cfg.circuit_names)
       THEN pc' = "error" /\ UNCHANGED <<requires_grad, active_adapters>>
       ELSE /\ requires_grad' = {"base", "ret_lora"}
            /\ active_adapters' = {"ret_lora"}
            /\ pc' = IF cfg.interven_names = {} THEN "error" ELSE "loop"
    /\ UNCHANGED <<Outcome, Study, variant, cfg, adv_lora, circuit, scores, step, W, ret_lora, grad,
                   disruption_score, base_lr, threshold, mask, res, user_attrs, hist, upd_grads>>

NextSeek ==
    \/ SD_setup
    \/ SD_for_step
    \/ SD_retain_forward_backward
    \/ SD_update_disruption_scores
    \/ SD_retain_optimizer_step
    \/ SD_apply_mask
    \/ SD_base_optimizer_step
    \/ SD_eval
    \/ SD_relearn

\* lines 68-83: the trial's hyperparameters and a freshly loaded model, with
\* the names target_modules matches and the names the circuit has
InitSeek ==
    /\ variant = "seek"
    /\ \E us \in {0, MaxUnlearnSteps}, wu \in 0..MaxWarmup, q \in Quantiles, sc \in ScoreCfgs,
          url \in BOOLEAN, nm \in SetupCfgs :
          cfg = [DefaultCfg EXCEPT !.unlearn_steps = us, !.disruption_score_warmup = wu,
                                   !.quantile = q, !.decay = sc[1], !.retain_amp = sc[2],
                                   !.use_ret_lora = url,
                                   !.interven_names = nm[1], !.circuit_names = nm[2]]
    /\ pc = "setup"
    /\ requires_grad = {"base"}
    /\ active_adapters = {}
    /\ circuit \in Circuits
    /\ base_lr = cfg.unlearn_lr
    /\ FreshModel

(* ------------ seek_and_destroy_no_abs.py: objective(trial) ------------- *)
\* In this loop the gradient and the weights are kept in units of 1/ScoreUnit,
\* so that `p.grad *= grad_decay` stays exact.

\* alpha_deg without the `% 180`: atan2 in (-180, 180]
alpha_deg_no_mod(to_forget, g) ==
    LET flip == to_forget < 0 \/ (to_forget = 0 /\ g < 0)
        y == IF flip THEN -to_forget ELSE to_forget
        x == IF flip THEN -g ELSE g
        a == IF y = 0 THEN 0
             ELSE IF x > 0 THEN (IF y < x THEN 22 ELSE IF y = x THEN 45 ELSE 67)
             ELSE IF x = 0 THEN 90
             ELSE (IF y > -x THEN 112 ELSE IF y = -x THEN 135 ELSE 157)
    IN IF to_forget < 0 THEN a - 180 ELSE IF flip THEN 180 ELSE a

\* lines 100-101: alpha = atan2(to_forget, grad) / pi * 180 % 180, in degrees.
\* On the lines through the origin at a multiple of 45 degrees the value is
\* exact; a direction strictly between two of them is given the angle in
\* the middle, which compares with every threshold of AngleGrid as it does.
alpha_deg(to_forget, g) ==
    LET flip == to_forget < 0 \/ (to_forget = 0 /\ g < 0)
        y == IF flip THEN -to_forget ELSE to_forget
        x == IF flip THEN -g ELSE g
    IN IF y = 0 THEN 0
       ELSE IF x > 0 THEN (IF y < x THEN 22 ELSE IF y = x THEN 45 ELSE 67)
       ELSE IF x = 0 THEN 90
       ELSE (IF y > -x THEN 112 ELSE IF y = -x THEN 135 ELSE 157)

\* lines 99-106: the mask of one element, to_forget in units of 1 and g in units of 1/ScoreUnit
NA_mask(to_forget, g, forget_thresh, alpha_thresh, alpha_low_thresh) ==
    LET _forget_big == Abs(to_forget) > forget_thresh
        alpha == alpha_deg(to_forget * ScoreUnit, g)
    IN (alpha < alpha_thresh) /\ _forget_big /\ (alpha > alpha_low_thresh)

NA_frame == <<Study, variant, cfg, requires_grad, active_adapters, ret_lora, adv_lora, circuit, scores,
              disruption_score, base_lr, threshold, user_attrs, upd_grads>>

\* lines 90-92: `for step in range(1, 1 + config.unlearn_steps)`
NA_for_step ==
    /\ variant = "no_abs" /\ pc = "loop"
    /\ IF step < cfg.unlearn_steps
       THEN /\ step' = step + 1
            /\ pc' = "retain"
            /\ hist' = <<>>
            /\ mask' = <<>>
       ELSE /\ pc' = "relearn"
            /\ UNCHANGED <<step, hist, mask>>
    /\ UNCHANGED <<Outcome, NA_frame, W, grad, res>>

\* lines 95-97: forward and backward on a retain batch; the gradient is
\* accumulated into p.grad, which the loop never sets to None; backward raises
\* RuntimeError when no parameter requires grad
NA_forward_backward ==
    /\ variant = "no_abs" /\ pc = "retain"
    /\ IF requires_grad = {}
       THEN pc' = "error" /\ UNCHANGED <<grad, hist>>
       ELSE /\ \E g \in GradTensors :
                  grad' = Backward(grad, requires_grad, [i \in Weights |-> g[i] * ScoreUnit], None)
            /\ hist' = Append(hist, "retain_fb")
            /\ pc' = "update"
    /\ UNCHANGED <<Outcome, NA_frame, step, W, mask, res>>

\* lines 98-114: for every parameter the mask, the forget update unless the
\* retain loss is not ok, the retain update and the decay of the gradient
NA_update_params ==
    /\ variant = "no_abs" /\ pc = "update"
    /\ LET g == grad["base"]
           ok == IF "retain_loss_ok" \in DOMAIN res THEN res["retain_loss_ok"] ELSE TRUE
           m == [i \in Weights |-> NA_mask(circuit[i], g[i], cfg.forget_thresh,
                                           cfg.alpha_thresh, cfg.alpha_low_thresh)]
           W1 == [i \in Weights |->
                    IF ok THEN W[i] - MaskMul(m[i], cfg.unlearn_lr * circuit[i] * ScoreUnit) ELSE W[i]]
       IN /\ mask' = m
          /\ W' = [i \in Weights |-> W1[i] - cfg.retaining_rate * g[i]]
          /\ grad' = [grad EXCEPT !["base"] = [i \in Weights |-> (g[i] * cfg.grad_decay.n) \div cfg.grad_decay.d]]
    /\ hist' = Append(hist, "update")
    /\ pc' = IF step % EvalEvery = 0 THEN "eval" ELSE "loop"
    /\ UNCHANGED <<Outcome, NA_frame, step, res>>

\* lines 113-115: `res = eval_(model, f_eval_batch, r_eval_batch, init_retain, step)`
NA_eval ==
    /\ variant = "no_abs" /\ pc = "eval"
    /\ \E fl \in SD_ForgetLoss, rl \in SD_RetainLoss :
          /\ res' = eval_(fl, rl)
          /\ pc' = IF Num(fl) /\ Num(rl) THEN "loop" ELSE "pruned"
    /\ hist' = Append(hist, "eval")
    /\ UNCHANGED <<Outcome, NA_frame, step, W, grad, mask>>

\* lines 117-123: the relearning attack on a copy of the model
NA_relearn ==
    /\ variant = "no_abs" /\ pc = "relearn"
    /\ \E traj \in relearn :
          /\ forget_losses' = traj
          /\ forget_loss' = <<min(forget_losses')>>
    /\ pc' = "done"
    /\ UNCHANGED <<log, NA_frame, step, W, grad, mask, res, hist>>

\* lines 73-85: requires_grad off everywhere, then for each matched parameter
\* in turn to_forget = circuit[name] (KeyError when the circuit has no such
\* name) and requires_grad on; no optimizer is built
NA_setup ==
    /\ variant = "no_abs" /\ pc = "setup"
    /\ LET missing == cfg.interven_names \ cfg.circuit_names
           done == IF missing = {} THEN cfg.interven_names
                   ELSE {n \in cfg.interven_names : \A m \in missing : n < m}
       IN /\ requires_grad' = IF done = {} THEN {} ELSE {"base"}
          /\ pc' = IF missing = {} THEN "loop" ELSE "error"
    /\ UNCHANGED <<Outcome, Study, variant, cfg, active_adapters, ret_lora, adv_lora, circuit, scores,
                   disruption_score, base_lr, threshold, user_attrs, upd_grads, step, W, grad,
                   mask, res, hist>>

NextNoAbs ==
    \/ NA_setup
    \/ NA_for_step
    \/ NA_forward_backward
    \/ NA_update_params
    \/ NA_eval
    \/ NA_relearn

\* lines 60-71: the trial's hyperparameters and a freshly loaded model, with
\* the names target_modules matches and the names the circuit has
InitNoAbs ==
    /\ variant = "no_abs"
    /\ \E us \in {0, MaxUnlearnSteps}, ft \in ForgetThreshs, at \in {90, 180}, al \in {0, 45},
          gd \in Decays, nm \in SetupCfgs :
          cfg = [DefaultCfg EXCEPT !.unlearn_steps = us, !.forget_thresh = ft,
                                   !.alpha_thresh = at, !.alpha_low_thresh = al, !.grad_decay = gd,
                                   !.interven_names = nm[1], !.circuit_names = nm[2]]
    /\ pc = "setup"
    /\ requires_grad = {"base"}
    /\ active_adapters = {}
    /\ circuit \in Circuits
    /\ base_lr = cfg.unlearn_lr
    /\ FreshModel

(* ------------- adversarial_adaptation.py: the script body -------------- *)
\* line 82: lr_lambda(step) = min(1.0, step / 100); base_lr is kept in units of unlearn_lr / 100
AD_lr_warmup == 100
lr_lambda(epoch) == IF epoch < AD_lr_warmup THEN epoch ELSE AD_lr_warmup
\* line 158: `if adv_f_ppl > 10000`
AD_ppl_limit == 10000
\* the `scores` the criterion can evaluate to
AD_Scores == {<<-1, -2, -3>>, <<0, 0, -1>>, <<-1, -1, -1>>}

AD_frame == <<Study, variant, cfg, circuit, disruption_score, threshold, user_attrs, upd_grads>>

\* lines 53-60: "get mask": k, the threshold over all the scores concatenated,
\* `mask = v > threshold`
AD_get_mask ==
    /\ variant = "adaptation" /\ pc = "get_mask"
    /\ LET pool == [i \in DOMAIN scores |-> Frac(scores[i], 1)]
           k == quantile_k(cfg.quantile, Len(pool))
       IN IF k \notin 1..Len(pool)
          THEN pc' = "error" /\ UNCHANGED <<threshold, mask>>
          ELSE /\ threshold' = kthvalue(pool, k)
               /\ mask' = [i \in DOMAIN pool |-> Gt(pool[i], threshold')]
               /\ pc' = "loop"
    /\ UNCHANGED <<Outcome, Study, variant, cfg, step, requires_grad, active_adapters, W, ret_lora, adv_lora, grad,
                   disruption_score, circuit, base_lr, res, user_attrs, hist, upd_grads, scores>>

\* AD_for_step entering the retain sub-step first
AD_for_step_retain_first ==
    /\ variant = "adaptation" /\ pc = "loop"
    /\ step < MaxUnlearnSteps
    /\ step' = step + 1
    /\ pc' = "retain"
    /\ hist' = <<>>
    /\ res' = NoRes
    /\ UNCHANGED <<Outcome, AD_frame, requires_grad, active_adapters, W, ret_lora, adv_lora, grad, base_lr,
                   mask, scores>>

\* lines 102-106: `for _ in range(1000000): step += 1` (the model stops at MaxUnlearnSteps)
AD_for_step ==
    /\ variant = "adaptation" /\ pc = "loop"
    /\ step < MaxUnlearnSteps
    /\ step' = step + 1
    /\ pc' = "unlearn"
    /\ hist' = <<>>
    /\ res' = NoRes
    /\ UNCHANGED <<Outcome, AD_frame, requires_grad, active_adapters, W, ret_lora, adv_lora, grad, base_lr,
                   mask, scores>>

\* lines 108-113: base_optimizer.zero_grad, set_adapter, only_grad_on(".base_layer."),
\* forward, backward on a forget batch
AD_unlearn_forward_backward ==
    /\ variant = "adaptation" /\ pc = "unlearn"
    /\ active_adapters' = {"ret_lora", "adv_lora"}
    /\ requires_grad' = {"base"}
    /\ \E g \in GradTensors, ga \in AdapterGrads :
          grad' = Backward([grad EXCEPT !["base"] = None],
                           requires_grad' \cap ({"base"} \cup active_adapters'), g, ga)
    /\ hist' = Append(hist, "unlearn_fb")
    /\ pc' = "mask"
    /\ UNCHANGED <<Outcome, AD_frame, step, W, ret_lora, adv_lora, base_lr, mask, res, scores>>

\* lines 120-124: `param.grad = param.grad * mask[name]`
AD_apply_mask ==
    /\ variant = "adaptation" /\ pc = "mask"
    /\ grad' = [grad EXCEPT !["base"] = [i \in Weights |-> MaskMul(mask[i], grad["base"][i])]]
    /\ hist' = Append(hist, "mask")
    /\ pc' = "unlearn_opt"
    /\ UNCHANGED <<Outcome, AD_frame, step, requires_grad, active_adapters, W, ret_lora, adv_lora, base_lr,
                   mask, res, scores>>

\* lines 125-126: base_optimizer.step(); scheduler.step()
AD_base_optimizer_step ==
    /\ variant = "adaptation" /\ pc = "unlearn_opt"
    /\ W' = sgd_step(W, grad["base"], base_lr)
    /\ base_lr' = lr_lambda(step)
    /\ hist' = Append(hist, "unlearn_opt")
    /\ pc' = "retain"
    /\ UNCHANGED <<Outcome, AD_frame, step, requires_grad, active_adapters, ret_lora, adv_lora, grad,
                   mask, res, scores>>

\* lines 128-132: helper_optimizer.zero_grad, set_adapter, only_grad_on(".helper_lora."),
\* forward, backward on the retain batch
AD_retain_forward_backward ==
    /\ variant = "adaptation" /\ pc = "retain"
    /\ active_adapters' = {"ret_lora"}
    /\ requires_grad' = {"ret_lora"}
    /\ \E g \in GradTensors, ga \in AdapterGrads :
          grad' = Backward([grad EXCEPT !["ret_lora"] = None],
                           requires_grad' \cap ({"base"} \cup active_adapters'), g, ga)
    /\ hist' = Append(hist, "retain_fb")
    /\ pc' = "retain_opt"
    /\ UNCHANGED <<Outcome, AD_frame, step, W, ret_lora, adv_lora, base_lr, mask, res, scores>>

\* line 133: helper_optimizer.step()
AD_helper_optimizer_step ==
    /\ variant = "adaptation" /\ pc = "retain_opt"
    /\ ret_lora' = adam_step(ret_lora, grad["ret_lora"], cfg.retaining_rate)
    /\ hist' = Append(hist, "retain_opt")
    /\ pc' = "adv"
    /\ UNCHANGED <<Outcome, AD_frame, step, requires_grad, active_adapters, W, adv_lora, grad, base_lr,
                   mask, res, scores>>

\* lines 135-139: adv_optimizer.zero_grad, set_adapter, only_grad_on(".adv_lora."),
\* forward, backward on the forget batch
AD_adv_forward_backward ==
    /\ variant = "adaptation" /\ pc = "adv"
    /\ active_adapters' = {"ret_lora", "adv_lora"}
    /\ requires_grad' = {"adv_lora"}
    /\ \E g \in GradTensors, ga \in AdapterGrads :
          grad' = Backward([grad EXCEPT !["adv_lora"] = None],
                           requires_grad' \cap ({"base"} \cup active_adapters'), g, ga)
    /\ hist' = Append(hist, "adv_fb")
    /\ pc' = "adv_opt"
    /\ UNCHANGED <<Outcome, AD_frame, step, W, ret_lora, adv_lora, base_lr, mask, res, scores>>

\* line 140: adv_optimizer.step(); line 143: `if step % 10 == 0`
AD_adv_optimizer_step ==
    /\ variant = "adaptation" /\ pc = "adv_opt"
    /\ adv_lora' = adam_step(adv_lora, grad["adv_lora"], cfg.retaining_rate)
    /\ hist' = Append(hist, "adv_opt")
    /\ pc' = IF step % EvalEvery = 0 THEN "eval" ELSE "loop"
    /\ UNCHANGED <<Outcome, AD_frame, step, requires_grad, active_adapters, W, ret_lora, grad, base_lr,
                   mask, res, scores>>

\* lines 142-159: the perplexities under both adapter configurations; `break`
\* when the adversary's forget perplexity exceeds the limit
AD_eval ==
    /\ variant = "adaptation" /\ pc = "eval"
    /\ \E af \in {AD_ppl_limit, AD_ppl_limit + 1} :
          /\ res' = [adv_forget |-> af]
          /\ pc' = IF af > AD_ppl_limit THEN "after_loop" ELSE "loop"
    /\ active_adapters' = {"ret_lora"}
    /\ hist' = Append(hist, "eval")
    /\ UNCHANGED <<Outcome, AD_frame, step, requires_grad, W, ret_lora, adv_lora, grad, base_lr, mask, scores>>

\* lines 161-176: `del mask`, delete the adversary adapter, merge the helper adapter, save
AD_after_loop ==
    /\ variant = "adaptation" /\ pc = "after_loop"
    /\ mask' = <<>>
    /\ active_adapters' = {}
    /\ pc' = "done"
    /\ UNCHANGED <<Outcome, AD_frame, step, requires_grad, W, ret_lora, adv_lora, grad, base_lr, res,
                   hist, scores>>

NextAdaptation ==
    \/ AD_get_mask
    \/ AD_for_step
    \/ AD_unlearn_forward_backward
    \/ AD_apply_mask
    \/ AD_base_optimizer_step
    \/ AD_retain_forward_backward
    \/ AD_helper_optimizer_step
    \/ AD_adv_forward_backward
    \/ AD_adv_optimizer_step
    \/ AD_eval
    \/ AD_after_loop

\* lines 28-97: the parameters, the criterion's scores, a fresh model with both
\* adapters, the optimizers and the scheduler (lr = unlearn_lr * lr_lambda(0)), step = 0
InitAdaptation ==
    /\ variant = "adaptation"
    /\ \E q \in Quantiles : cfg = [DefaultCfg EXCEPT !.unlearn_steps = MaxUnlearnSteps, !.quantile = q]
    /\ pc = "get_mask"
    /\ requires_grad = {"adv_lora", "ret_lora"}
    /\ active_adapters = {"adv_lora"}
    /\ circuit = <<>>
    /\ base_lr = lr_lambda(0)
    /\ step = 0
    /\ W = ZerosLike
    /\ ret_lora = <<0>>
    /\ adv_lora = <<0>>
    /\ grad = NoGrads
    /\ disruption_score = ZerosLike
    /\ threshold = NoFrac
    /\ mask = <<>>
    /\ res = NoRes
    /\ user_attrs = {}
    /\ hist = <<>>
    /\ TrialStart
    /\ scores \in AD_Scores
    /\ upd_grads = <<>>

(* ----------------- aa_dynamic_mask.py: the script body ----------------- *)
\* line 34: init_retain, a perplexity; line 158: `base_retain > init_retain * 1.1`
DM_init_retain == 20
DM_retain_broken(base_retain) == 10 * base_retain > 11 * DM_init_retain

DM_frame == <<Study, variant, cfg, circuit, disruption_score, threshold, user_attrs, upd_grads, scores,
              base_lr, mask>>

\* lines 96-99: `for step in range(1, 1 + unlearn_steps)`
DM_for_step ==
    /\ variant = "dynamic_mask" /\ pc = "loop"
    /\ IF step < cfg.unlearn_steps
       THEN /\ step' = step + 1
            /\ pc' = "unlearn"
            /\ hist' = <<>>
            /\ res' = NoRes
       ELSE /\ pc' = "after_loop"
            /\ UNCHANGED <<step, hist, res>>
    /\ UNCHANGED <<Outcome, DM_frame, requires_grad, active_adapters, W, ret_lora, adv_lora, grad>>

\* lines 113-118: base_optimizer.zero_grad, set_adapter, only_grad_on(".base_layer."),
\* forward, backward on a forget batch
DM_unlearn_forward_backward ==
    /\ variant = "dynamic_mask" /\ pc = "unlearn"
    /\ active_adapters' = {"ret_lora", "adv_lora"}
    /\ requires_grad' = {"base"}
    /\ \E g \in GradTensors, ga \in AdapterGrads :
          grad' = Backward([grad EXCEPT !["base"] = None],
                           requires_grad' \cap ({"base"} \cup active_adapters'), g, ga)
    /\ hist' = Append(hist, "unlearn_fb")
    /\ pc' = "mask"
    /\ UNCHANGED <<Outcome, DM_frame, step, W, ret_lora, adv_lora, res>>

\* lines 120-124: `param.grad = param.grad * mask[name]`; the file never assigns
\* `mask` (lines 107-110 are commented out), so the name is bound only when the
\* interpreter session already holds one, and `name in mask` raises NameError otherwise
DM_apply_mask ==
    /\ variant = "dynamic_mask" /\ pc = "mask"
    /\ IF cfg.mask_bound
       THEN /\ grad' = [grad EXCEPT !["base"] = [i \in Weights |-> MaskMul(mask[i], grad["base"][i])]]
            /\ hist' = Append(hist, "mask")
            /\ pc' = "unlearn_opt"
       ELSE /\ pc' = "error"
            /\ UNCHANGED <<grad, hist>>
    /\ UNCHANGED <<Outcome, DM_frame, step, requires_grad, active_adapters, W, ret_lora, adv_lora, res>>

\* line 125: base_optimizer.step()
DM_base_optimizer_step ==
    /\ variant = "dynamic_mask" /\ pc = "unlearn_opt"
    /\ W' = sgd_step(W, grad["base"], base_lr)
    /\ hist' = Append(hist, "unlearn_opt")
    /\ pc' = "retain"
    /\ UNCHANGED <<Outcome, DM_frame, step, requires_grad, active_adapters, ret_lora, adv_lora, grad, res>>

\* lines 127-131: helper_optimizer.zero_grad, set_adapter, only_grad_on(".helper_lora."),
\* forward, backward on the retain batch
DM_retain_forward_backward ==
    /\ variant = "dynamic_mask" /\ pc = "retain"
    /\ active_adapters' = {"ret_lora"}
    /\ requires_grad' = {"ret_lora"}
    /\ \E g \in GradTensors, ga \in AdapterGrads :
          grad' = Backward([grad EXCEPT !["ret_lora"] = None],
                           requires_grad' \cap ({"base"} \cup active_adapters'), g, ga)
    /\ hist' = Append(hist, "retain_fb")
    /\ pc' = "retain_opt"
    /\ UNCHANGED <<Outcome, DM_frame, step, W, ret_lora, adv_lora, res>>

\* line 132: helper_optimizer.step()
DM_helper_optimizer_step ==
    /\ variant = "dynamic_mask" /\ pc = "retain_opt"
    /\ ret_lora' = adam_step(ret_lora, grad["ret_lora"], cfg.retaining_rate)
    /\ hist' = Append(hist, "retain_opt")
    /\ pc' = "adv"
    /\ UNCHANGED <<Outcome, DM_frame, step, requires_grad, active_adapters, W, adv_lora, grad, res>>

\* lines 134-138: adv_optimizer.zero_grad, set_adapter, only_grad_on(".adv_lora."),
\* forward, backward on the forget batch
DM_adv_forward_backward ==
    /\ variant = "dynamic_mask" /\ pc = "adv"
    /\ active_adapters' = {"ret_lora", "adv_lora"}
    /\ requires_grad' = {"adv_lora"}
    /\ \E g \in GradTensors, ga \in AdapterGrads :
          grad' = Backward([grad EXCEPT !["adv_lora"] = None],
                           requires_grad' \cap ({"base"} \cup active_adapters'), g, ga)
    /\ hist' = Append(hist, "adv_fb")
    /\ pc' = "adv_opt"
    /\ UNCHANGED <<Outcome, DM_frame, step, W, ret_lora, adv_lora, res>>

\* line 139: adv_optimizer.step(); line 142: `if step % 10 == 0`
DM_adv_optimizer_step ==
    /\ variant = "dynamic_mask" /\ pc = "adv_opt"
    /\ adv_lora' = adam_step(adv_lora, grad["adv_lora"], cfg.retaining_rate)
    /\ hist' = Append(hist, "adv_opt")
    /\ pc' = IF step % EvalEvery = 0 THEN "eval" ELSE "loop"
    /\ UNCHANGED <<Outcome, DM_frame, step, requires_grad, active_adapters, W, ret_lora, grad, res>>

\* lines 141-159: the perplexities under both adapter configurations; `break` when the
\* adversary's forget perplexity exceeds the limit or the retain perplexity has grown by 10%
DM_eval ==
    /\ variant = "dynamic_mask" /\ pc = "eval"
    /\ \E af \in {AD_ppl_limit, AD_ppl_limit + 1}, br \in {DM_init_retain + 2, DM_init_retain + 3} :
          /\ res' = [adv_forget |-> af, base_retain |-> br]
          /\ pc' = IF af > AD_ppl_limit \/ DM_retain_broken(br) THEN "after_loop" ELSE "loop"
    /\ active_adapters' = {"ret_lora"}
    /\ hist' = Append(hist, "eval")
    /\ UNCHANGED <<Outcome, DM_frame, step, requires_grad, W, ret_lora, adv_lora, grad>>

\* lines 161-171: `del mask`, delete the adversary adapter, merge the helper adapter, save
DM_after_loop ==
    /\ variant = "dynamic_mask" /\ pc = "after_loop"
    /\ IF cfg.mask_bound
       THEN active_adapters' = {} /\ pc' = "done"
       ELSE UNCHANGED active_adapters /\ pc' = "error"
    /\ UNCHANGED <<Outcome, DM_frame, step, requires_grad, W, ret_lora, adv_lora, grad, res, hist>>

NextDynamicMask ==
    \/ DM_for_step
    \/ DM_unlearn_forward_backward
    \/ DM_apply_mask
    \/ DM_base_optimizer_step
    \/ DM_retain_forward_backward
    \/ DM_helper_optimizer_step
    \/ DM_adv_forward_backward
    \/ DM_adv_optimizer_step
    \/ DM_eval
    \/ DM_after_loop

\* lines 42-89: the parameters, a fresh model with both adapters, the optimizers,
\* zero disruption scores; `mask` is whatever the session holds, if anything
InitDynamicMask ==
    /\ variant = "dynamic_mask"
    /\ \E us \in {0, MaxUnlearnSteps}, mb \in BOOLEAN :
          cfg = [DefaultCfg EXCEPT !.unlearn_steps = us, !.mask_bound = mb]
    /\ pc = "loop"
    /\ requires_grad = {"adv_lora", "ret_lora"}
    /\ active_adapters = {"adv_lora"}
    /\ circuit = <<>>
    /\ base_lr = cfg.unlearn_lr
    /\ step = 0
    /\ W = ZerosLike
    /\ ret_lora = <<0>>
    /\ adv_lora = <<0>>
    /\ grad = NoGrads
    /\ disruption_score = ZerosLike
    /\ threshold = NoFrac
    /\ mask \in IF cfg.mask_bound THEN [Weights -> BOOLEAN] ELSE {<<>>}
    /\ res = NoRes
    /\ user_attrs = {}
    /\ hist = <<>>
    /\ TrialStart
    /\ scores = <<>>
    /\ upd_grads = <<>>

Init == (InitAdapters \/ InitSeek \/ InitNoAbs \/ InitAdaptation \/ InitDynamicMask) /\ StudyStart
Next == NextAdapters \/ NextSeek \/ NextNoAbs \/ NextAdaptation \/ NextDynamicMask
Spec == Init /\ [][Next]_vars

(* ------------------- one_hit.py: "sparsify circuit" -------------------- *)
\* the parameters a population of n scores is split into: one parameter up
\* to three elements, two (of two and of n - 2 elements) from four on
OH_param(i, n) == IF n >= 4 /\ i > 2 THEN 2 ELSE 1
OH_elems(p, n) == {i \in 1..n : OH_param(i, n) = p}
OH_params(n) == {OH_param(i, n) : i \in 1..n}
\* the elements of parameter p, in order
OH_tensor(s, p) == SelectSeq([i \in DOMAIN s |-> <<OH_param(i, Len(s)), s[i]>>], LAMBDA e : e[1] = p)

\* lines 33-38: for every parameter its own k and threshold, then
\* `circuit[param_name][scores < threshold] = 0`
OH_sparsify_circuit ==
    /\ variant = "one_hit" /\ pc = "sparsify"
    /\ LET n == Len(scores)
           pool(p) == [j \in DOMAIN OH_tensor(scores, p) |-> Frac(OH_tensor(scores, p)[j][2], 1)]
           k(p) == quantile_k(cfg.quantile, Len(pool(p)))
       IN IF \E p \in OH_params(n) : k(p) \notin 1..Len(pool(p))
          THEN pc' = "error" /\ UNCHANGED <<threshold, circuit>>
          ELSE /\ threshold' = [p \in OH_params(n) |-> kthvalue(pool(p), k(p))]
               /\ circuit' = [i \in 1..n |->
                                IF Lt(Frac(scores[i], 1), threshold'[OH_param(i, n)]) THEN 0 ELSE circuit[i]]
               /\ pc' = "loop"
    /\ UNCHANGED <<Outcome, Study, variant, cfg, step, requires_grad, active_adapters, W, ret_lora, adv_lora, grad,
                   disruption_score, base_lr, mask, res, user_attrs, hist, upd_grads, scores>>

(* ---------- the threshold selection over bounded populations ----------- *)
\* the values of a score and the populations of 1..MaxPop scores
ScoreVals == {0, 1, 2}
Populations == UNION {[1..n -> ScoreVals] : n \in 1..MaxPop}

\* what the threshold selection does not read
ParkedLoop ==
    /\ step = 0
    /\ requires_grad = {}
    /\ active_adapters = {}
    /\ W = ZerosLike
    /\ ret_lora = <<0>>
    /\ adv_lora = <<0>>
    /\ grad = NoGrads
    /\ disruption_score = ZerosLike
    /\ base_lr = 0
    /\ res = NoRes
    /\ user_attrs = {}
    /\ hist = <<>>
    /\ TrialStart
    /\ StudyStart
    /\ upd_grads = <<>>

\* `threshold = get_threshold(quantile, final_scores)` of seek_and_destroy.py
\* line 142 and adversarial_adapters.py line 152, over any population
GT_select ==
    /\ variant = "get_threshold" /\ pc = "select"
    /\ LET final_scores == [i \in DOMAIN scores |-> Frac(scores[i], 1)]
       IN IF quantile_k(cfg.quantile, Len(final_scores)) \notin 1..Len(final_scores)
          THEN pc' = "error" /\ UNCHANGED <<threshold, mask>>
          ELSE /\ threshold' = get_threshold(cfg.quantile, final_scores)
               /\ mask' = [i \in DOMAIN final_scores |-> Lt(final_scores[i], threshold')]
               /\ pc' = "loop"
    /\ UNCHANGED <<Outcome, Study, variant, cfg, step, requires_grad, active_adapters, W, ret_lora, adv_lora, grad,
                   disruption_score, circuit, base_lr, res, user_attrs, hist, upd_grads, scores>>

InitThreshold ==
    /\ variant \in {"adaptation", "one_hit", "get_threshold"}
    /\ \E q \in Quantiles : cfg = [DefaultCfg EXCEPT !.quantile = q]
    /\ pc = CASE variant = "adaptation" -> "get_mask"
              [] variant = "one_hit" -> "sparsify"
              [] OTHER -> "select"
    /\ scores \in Populations
    /\ circuit = IF variant = "one_hit" THEN [i \in DOMAIN scores |-> 1] ELSE <<>>
    /\ threshold = NoFrac
    /\ mask = <<>>
    /\ ParkedLoop

NextThreshold == AD_get_mask \/ OH_sparsify_circuit \/ GT_select
SpecThreshold == InitThreshold /\ [][NextThreshold]_vars

(* ------------- the disruption-score tracker on its own ----------------- *)
\* adversarial_adapters.py lines 132-135 / seek_and_destroy.py lines 124-126,
\* for any gradient of the retain pass
DST_update ==
    /\ variant = "tracker" /\ pc = "scores"
    /\ Len(upd_grads) < 2
    /\ \E g \in Tensors(GradVals) :
          /\ grad' = [grad EXCEPT !["base"] = AsSeq(g)]
          /\ disruption_score' = update_disruption_score(disruption_score, g, cfg.decay, cfg.retain_amp)
          /\ upd_grads' = Append(upd_grads, AsSeq(g))
    /\ step' = step + 1
    /\ UNCHANGED <<Outcome, Study, variant, cfg, pc, requires_grad, active_adapters, W, ret_lora, adv_lora,
                   circuit, base_lr, threshold, mask, res, user_attrs, hist, scores>>

InitScore ==
    /\ variant = "tracker"
    /\ \E dc \in Decays, amp \in Amps : cfg = [DefaultCfg EXCEPT !.decay = dc, !.retain_amp = amp]
    /\ pc = "scores"
    /\ circuit = <<>>
    /\ scores = <<>>
    /\ threshold = NoFrac
    /\ mask = <<>>
    /\ ParkedLoop

SpecScore == InitScore /\ [][DST_update]_vars

(* ------------------- the angle mask on its own ------------------------- *)
\* to_forget and the accumulated retain gradient of one pass of lines 98-111
TfVals == {-1, 0, 2}
InitAngle ==
    /\ variant = "no_abs"
    /\ \E ft \in ForgetThreshs, at \in {90, 180}, al \in {0, 45} :
          cfg = [DefaultCfg EXCEPT !.unlearn_steps = 1, !.forget_thresh = ft,
                                   !.alpha_thresh = at, !.alpha_low_thresh = al]
    /\ pc = "update"
    /\ circuit \in Tensors(TfVals)
    /\ \E g \in Tensors(GradVals) : grad = [NoGrads EXCEPT !["base"] = [i \in Weights |-> g[i] * ScoreUnit]]
    /\ step = 1
    /\ requires_grad = {"base"}
    /\ active_adapters = {}
    /\ W = ZerosLike
    /\ ret_lora = <<0>>
    /\ adv_lora = <<0>>
    /\ disruption_score = ZerosLike
    /\ base_lr = cfg.unlearn_lr
    /\ threshold = NoFrac
    /\ mask = <<>>
    /\ res = NoRes
    /\ user_attrs = {}
    /\ hist = <<"retain_fb">>
    /\ TrialStart
    /\ StudyStart
    /\ scores = <<>>
    /\ upd_grads = <<>>

SpecAngle == InitAngle /\ [][NA_update_params]_vars

(* ---------------- study.optimize(objective, n_trials) ------------------ *)
\* the hyperparameters the trials of the study sample
TrialCfgs == {[DefaultCfg EXCEPT !.unlearn_steps = MaxUnlearnSteps, !.disruption_score_warmup = wu,
                                 !.quantile = [n |-> 3, d |-> 4]] : wu \in {0, MaxWarmup}}
\* seek_and_destroy_no_abs.py reads neither the quantile nor the warmup
TrialCfgsOf(v) ==
    IF v = "no_abs" THEN {[DefaultCfg EXCEPT !.unlearn_steps = MaxUnlearnSteps]} ELSE TrialCfgs
\* objective(trial) as the study calls it: the hyperparameters the trial
\* samples, a fresh model; adversarial_adapters.py lines 86-87 set both user
\* attributes to False
objective ==
    /\ InitAdapters \/ ((InitSeek \/ InitNoAbs) /\ circuit = <<2, 1, -1>>)
    /\ cfg \in TrialCfgsOf(variant)

\* study_optimize with TrialPruned ending the study like any other exception
study_optimize_pruned_ends ==
    /\ variant \in {"adapters", "seek", "no_abs"}
    /\ pc \in {"done", "pruned", "error"}
    /\ Len(trials) < MaxTrials
    /\ trials' = Append(trials, [state |-> CASE pc = "done" -> "COMPLETE"
                                             [] pc = "pruned" -> "PRUNED"
                                             [] OTHER -> "FAIL",
                                  value |-> forget_loss,
                                  user_attrs |-> user_attrs])
    /\ IF pc \in {"error", "pruned"} \/ Len(trials') = MaxTrials
       THEN /\ pc' = "finished"
            /\ UNCHANGED <<Outcome, cfg, step, requires_grad, active_adapters, W, ret_lora,
                           adv_lora, grad, disruption_score, circuit, base_lr, threshold, mask,
                           res, user_attrs, hist, scores, upd_grads>>
       ELSE /\ pc' = IF variant = "adapters" THEN "loop" ELSE "setup"
            /\ cfg' \in TrialCfgsOf(variant)
            /\ requires_grad' = IF variant = "adapters" THEN {"adv_lora", "ret_lora"} ELSE {"base"}
            /\ active_adapters' = IF variant = "adapters" THEN {"adv_lora"} ELSE {}
            /\ base_lr' = cfg'.unlearn_lr
            /\ step' = 0
            /\ W' = ZerosLike
            /\ ret_lora' = <<0>>
            /\ adv_lora' = <<0>>
            /\ grad' = NoGrads
            /\ disruption_score' = ZerosLike
            /\ threshold' = NoFrac
            /\ mask' = <<>>
            /\ res' = NoRes
            /\ user_attrs' = {}
            /\ hist' = <<>>
            /\ log' = <<>>
            /\ forget_losses' = <<>>
            /\ forget_loss' = <<>>
            /\ scores' = <<>>
            /\ upd_grads' = <<>>
            /\ UNCHANGED circuit
    /\ UNCHANGED <<variant, best_value, best_model_path, empty_cache_calls>>

\* adversarial_adapters.py line 227, seek_and_destroy.py line 190,
\* seek_and_destroy_no_abs.py line 142: the study
\* records how the trial ended (the value objective returned, or that it
\* raised TrialPruned, with the trial's user attributes) and calls objective
\* again until n_trials trials have run; any other exception ends the study
study_optimize ==
    /\ variant \in {"adapters", "seek", "no_abs"}
    /\ pc \in {"done", "pruned", "error"}
    /\ Len(trials) < MaxTrials
    /\ trials' = Append(trials, [state |-> CASE pc = "done" -> "COMPLETE"
                                             [] pc = "pruned" -> "PRUNED"
                                             [] OTHER -> "FAIL",
                                  value |-> forget_loss,
                                  user_attrs |-> user_attrs])
    /\ IF pc = "error" \/ Len(trials') = MaxTrials
       THEN /\ pc' = "finished"
            /\ UNCHANGED <<Outcome, cfg, step, requires_grad, active_adapters, W, ret_lora,
                           adv_lora, grad, disruption_score, circuit, base_lr, threshold, mask,
                           res, user_attrs, hist, scores, upd_grads>>
       ELSE /\ pc' = IF variant = "adapters" THEN "loop" ELSE "setup"
            /\ cfg' \in TrialCfgsOf(variant)
            /\ requires_grad' = IF variant = "adapters" THEN {"adv_lora", "ret_lora"} ELSE {"base"}
            /\ active_adapters' = IF variant = "adapters" THEN {"adv_lora"} ELSE {}
            /\ base_lr' = cfg'.unlearn_lr
            /\ step' = 0
            /\ W' = ZerosLike
            /\ ret_lora' = <<0>>
            /\ adv_lora' = <<0>>
            /\ grad' = NoGrads
            /\ disruption_score' = ZerosLike
            /\ threshold' = NoFrac
            /\ mask' = <<>>
            /\ res' = NoRes
            /\ user_attrs' = {}
            /\ hist' = <<>>
            /\ log' = <<>>
            /\ forget_losses' = <<>>
            /\ forget_loss' = <<>>
            /\ scores' = <<>>
            /\ upd_grads' = <<>>
            /\ UNCHANGED circuit
    /\ UNCHANGED <<variant, best_value, best_model_path, empty_cache_calls>>

InitStudy == objective /\ StudyStart
NextStudy == NextAdapters \/ NextSeek \/ NextNoAbs \/ study_optimize
SpecStudy == InitStudy /\ [][NextStudy]_vars

(* ======================= properties of the loops ======================= *)
Last(h) == h[Len(h)]
IsPrefix(a, b) == Len(a) <= Len(b) /\ \A i \in 1..Len(a) : a[i] = b[i]
Count(h, e) == Cardinality({i \in 1..Len(h) : h[i] = e})

\* the forward/backward passes and optimizer steps among the operations of a step
SubstepOps == {"retain_fb", "retain_opt", "unlearn_fb", "unlearn_opt", "adv_fb", "adv_opt"}
Substeps(h) == SelectSeq(h, LAMBDA e : e \in SubstepOps)
RetainFirst == <<"retain_fb", "retain_opt", "unlearn_fb", "unlearn_opt", "adv_fb", "adv_opt">>
UnlearnFirst == <<"unlearn_fb", "unlearn_opt", "retain_fb", "retain_opt", "adv_fb", "adv_opt">>
\* a step past the warmup has run to its end
StepDone ==
    /\ step >= 1 /\ step > cfg.disruption_score_warmup
    /\ pc \in {"loop", "eval", "pruned", "after_loop", "relearn", "done"}
Adversarial == {"adapters", "adaptation", "dynamic_mask"}

\* C1 as stated: in the three adversarial loops every step past the warmup
\* runs retain, unlearn, adversary, once each and in this order, each
\* sub-step's optimizer step before the next sub-step's forward pass.
C1_Original ==
    variant \in Adversarial =>
        /\ IsPrefix(Substeps(hist), RetainFirst)
        /\ StepDone => Substeps(hist) = RetainFirst

\* C1: every step past the warmup runs the three sub-steps once each and one
\* after the other, retain -> unlearn -> adversary in adversarial_adapters.py
\* and unlearn -> retain -> adversary in adversarial_adaptation.py and
\* aa_dynamic_mask.py.
C1_Order ==
    variant \in Adversarial =>
        LET order == IF variant = "adapters" THEN RetainFirst ELSE UnlearnFirst
        IN /\ IsPrefix(Substeps(hist), order)
           /\ StepDone => Substeps(hist) = order

C1_Witness == variant = "adaptation" /\ step >= 2 /\ pc = "loop" /\ Substeps(hist) = UnlearnFirst

\* a backward pass has just run
AfterBackward == hist # <<>> /\ Last(hist) \in {"retain_fb", "unlearn_fb", "adv_fb"}

\* C2 as stated: at every forward/backward pair exactly one parameter group
\* has requires_grad set.
C2_Original == AfterBackward => Cardinality(requires_grad) = 1

\* the groups with requires_grad at the backward pass of a sub-step
GradGroups(v, op) ==
    CASE op = "unlearn_fb" -> {"base"}
      [] op = "adv_fb" -> {"adv_lora"}
      [] op = "retain_fb" -> IF v \in {"adapters", "seek"} THEN {"base", "ret_lora"}
                             ELSE IF v = "no_abs" THEN {"base"} ELSE {"ret_lora"}

\* C2: at the backward pass of an unlearn sub-step only the base weights, of
\* an adversary sub-step only the adversary adapter, of a retain sub-step of
\* adversarial_adaptation.py and aa_dynamic_mask.py only the helper adapter
\* has requires_grad; the retain pass of adversarial_adapters.py and the
\* retain pass of seek_and_destroy.py (which has no other pass) has it on
\* the base weights and the retain adapter together; the adversary adapter
\* never shares it.
C2_GradGroups ==
    AfterBackward =>
        /\ requires_grad = GradGroups(variant, Last(hist))
        /\ ("adv_lora" \in requires_grad => requires_grad = {"adv_lora"})

C2_Witness ==
    /\ variant = "adapters" /\ hist # <<>> /\ Last(hist) = "retain_fb"
    /\ requires_grad = {"base", "ret_lora"} /\ step > cfg.disruption_score_warmup

\* C3: an optimizer step of a sub-step changes the parameters of its own
\* group only (the retain step: the retain adapter, or the base weights when
\* seek_and_destroy.py runs without it; the unlearn step: the base weights;
\* the adversary step: the adversary adapter), and nothing else in a step
\* changes any parameter.
C3_Step ==
    LET op == IF hist' # <<>> /\ hist' # hist THEN Last(hist') ELSE "none"
        own == CASE op = "retain_opt" ->
                       IF variant = "seek" /\ ~cfg.use_ret_lora THEN {"base"} ELSE {"ret_lora"}
                 [] op \in {"unlearn_opt", "update"} -> {"base"}
                 [] op = "adv_opt" -> {"adv_lora"}
                 [] OTHER -> {}
    IN /\ "base" \notin own => W' = W
       /\ "ret_lora" \notin own => ret_lora' = ret_lora
       /\ "adv_lora" \notin own => adv_lora' = adv_lora
C3_Isolation == [][C3_Step]_vars

C3_Witness ==
    /\ variant = "adapters" /\ hist # <<>> /\ Last(hist) = "adv_opt"
    /\ W # ZerosLike /\ ret_lora # <<0>> /\ adv_lora # <<0>>

HasTracker == variant \in {"adapters", "seek"}

\* C4: in adversarial_adapters.py and seek_and_destroy.py every step of the
\* loop, warmup steps included, updates the disruption scores exactly once:
\* right after the retain backward pass, on the gradients that pass left,
\* and before the retain optimizer step.
C4_ScoreUpdateOnce ==
    HasTracker =>
        /\ Len(hist) >= 1 => hist[1] = "retain_fb"
        /\ Len(hist) >= 2 => hist[2] = "score_update"
        /\ Count(hist, "score_update") <= 1
        /\ pc = "scores" => grad["base"] # None /\ Last(hist) = "retain_fb"
        /\ (step >= 1 /\ pc \in {"loop", "eval", "pruned", "relearn", "done"}) =>
               Count(hist, "score_update") = 1

C4_Witness ==
    /\ variant = "seek" /\ pc = "loop" /\ step >= 1 /\ step <= cfg.disruption_score_warmup
    /\ hist = <<"retain_fb", "score_update">> /\ disruption_score # ZerosLike

\* C6: while step <= disruption_score_warmup the scores are updated and no
\* optimizer steps: at the end of the warmup the base weights and both
\* adapters are what they were at the start.
C6_Warmup ==
    (HasTracker /\ step <= cfg.disruption_score_warmup) =>
        /\ W = ZerosLike /\ ret_lora = <<0>> /\ adv_lora = <<0>>
        /\ \A i \in 1..Len(hist) : hist[i] \in {"retain_fb", "score_update"}
        /\ (step >= 1 /\ pc = "loop") => Count(hist, "score_update") = 1

C6_Witness ==
    /\ variant = "adapters" /\ pc = "loop" /\ step = cfg.disruption_score_warmup
    /\ step = MaxWarmup /\ disruption_score # ZerosLike /\ W = ZerosLike

(* ================= properties of the disruption score ================== *)
\* C5: from a zero score, one update with gradient g leaves |g|^amp and two
\* updates with gradients g1, g2 leave decay * |g1|^amp + |g2|^amp,
\* elementwise, for every decay and amp.
C5_ScoreFormula ==
    (variant \in {"tracker", "adapters", "seek"}
        /\ \A j \in 1..Len(upd_grads) : \A i \in Weights : Num(upd_grads[j][i])) =>
        LET term(j, i) == Pow(Abs(upd_grads[j][i]), cfg.retain_amp) * ScoreUnit
            updates == IF variant = "tracker" \/ "score_update" \in {hist[i] : i \in 1..Len(hist)}
                       THEN step ELSE step - 1
        IN /\ (updates = 1 /\ Len(upd_grads) = 1) =>
                  \A i \in Weights : disruption_score[i] = term(1, i)
           /\ (updates = 2 /\ Len(upd_grads) = 2) =>
                  \A i \in Weights :
                      disruption_score[i] * cfg.decay.d = cfg.decay.n * term(1, i) + cfg.decay.d * term(2, i)

C5_Witness ==
    /\ variant = "tracker" /\ Len(upd_grads) = 2
    /\ cfg.decay = [n |-> 1, d |-> 2] /\ cfg.retain_amp = 2
    /\ upd_grads[1][1] = -1 /\ upd_grads[2][1] = 1
    /\ 2 * disruption_score[1] = 3 * ScoreUnit

(* ==================== properties of the threshold ====================== *)
Pooled == {"adaptation", "get_threshold"}
Selected == variant \in Pooled /\ pc = "loop" /\ step = 0
KFloor(q, n) == (q.n * n) \div q.d
\* how many of the scores in `elems` are strictly below / not above t
Below(t, elems) == Cardinality({i \in elems : Lt(Frac(scores[i], 1), t)})
NotAbove(t, elems) == Cardinality({i \in elems : ~Gt(Frac(scores[i], 1), t)})
NoTies(elems) == \A i, j \in elems : scores[i] = scores[j] => i = j

\* C7 as stated: exactly floor(q * N) elements of the population are
\* strictly below the threshold.
C7_Original ==
    Selected => Below(threshold, DOMAIN scores) = KFloor(cfg.quantile, Len(scores))

\* C7: when floor(q * N) >= 1 the threshold is an element of the population
\* with at most floor(q * N) - 1 elements strictly below it (exactly so many
\* when no two scores are equal) and at least floor(q * N) elements not
\* above it.
C7_Rank ==
    Selected =>
        LET k == KFloor(cfg.quantile, Len(scores))
            all == DOMAIN scores
        IN /\ \E i \in all : SameVal(Frac(scores[i], 1), threshold)
           /\ Below(threshold, all) <= k - 1
           /\ NotAbove(threshold, all) >= k
           /\ NoTies(all) => Below(threshold, all) = k - 1

C7_Witness ==
    /\ Selected /\ variant = "get_threshold" /\ scores = <<2, 0, 1, 1>>
    /\ cfg.quantile = [n |-> 3, d |-> 4] /\ threshold = Frac(1, 1)

Ran == variant \in Pooled \cup {"one_hit"} /\ pc \notin {"get_mask", "sparsify", "select"} /\ step = 0
Thresholds == IF variant = "one_hit" THEN {threshold[p] : p \in DOMAIN threshold} ELSE {threshold}
\* t is a k-th smallest of the scores in elems
IsKth(t, k, elems) == Below(t, elems) < k /\ k <= NotAbove(t, elems)

\* C8 as stated: for every q and every population the selection is defined,
\* and the threshold is one scalar, the k-th smallest of all the scores
\* pooled, k = floor(q * N).
C8_Original ==
    Ran => /\ pc # "error"
           /\ \A t \in Thresholds : IsKth(t, KFloor(cfg.quantile, Len(scores)), DOMAIN scores)

\* C8: the selection raises exactly when floor(q * numel) = 0 for a
\* population it selects from; otherwise 1 <= k < numel and the threshold is
\* a k-th smallest: of all the scores pooled in adversarial_adaptation.py
\* and get_threshold, of every parameter's scores apart in one_hit.py.
C8_Selection ==
    Ran =>
        LET n == Len(scores)
            parts == IF variant = "one_hit" THEN {OH_elems(p, n) : p \in OH_params(n)} ELSE {DOMAIN scores}
            k(part) == KFloor(cfg.quantile, Cardinality(part))
        IN /\ pc = "error" <=> \E part \in parts : k(part) = 0
           /\ pc # "error" =>
                 /\ \A part \in parts : 1 <= k(part) /\ k(part) < Cardinality(part)
                 /\ variant \in Pooled => IsKth(threshold, k(DOMAIN scores), DOMAIN scores)
                 /\ variant = "one_hit" =>
                        \A p \in OH_params(n) : IsKth(threshold[p], k(OH_elems(p, n)), OH_elems(p, n))

C8_Witness ==
    /\ Ran /\ variant = "adaptation" /\ pc = "loop" /\ scores = <<2, 0, 1, 2>>
    /\ cfg.quantile = [n |-> 1, d |-> 2] /\ threshold = Frac(1, 1)
    /\ mask = <<TRUE, FALSE, FALSE, TRUE>>

(* =================== properties of the unlearn step ==================== *)
AllNaN(g) == \A i \in DOMAIN g : ~Num(g[i])
\* g = mask * t for some tensor t of numbers
MaskedTensor(g) == \A i \in DOMAIN g : Num(g[i]) /\ (~mask[i] => g[i] = 0)

C9_Step ==
    LET op == IF hist' # <<>> /\ hist' # hist THEN Last(hist') ELSE "none"
        ok == IF "retain_loss_ok" \in DOMAIN res THEN res["retain_loss_ok"] ELSE TRUE
    IN /\ (variant = "seek" /\ op = "unlearn_opt") =>
              /\ grad["base"] = [i \in Weights |-> MaskMul(mask[i], circuit[i])]
              /\ \A i \in Weights : W'[i] = IF mask[i] THEN W[i] - base_lr * circuit[i] ELSE W[i]
       /\ (variant = "adapters" /\ op = "unlearn_opt") =>
              /\ \/ AllNaN(grad["base"])
                 \/ /\ MaskedTensor(grad["base"])
                    /\ norm_sq(grad["base"]) > 0 /\ norm_sq(grad["base"]) <= GradUnit * GradUnit
              /\ \A i \in Weights :
                    W'[i] = IF Num(W[i]) /\ Num(grad["base"][i]) THEN W[i] - base_lr * grad["base"][i] ELSE NaNv
       /\ (variant = "no_abs" /\ op = "update") =>
              \A i \in Weights :
                  W'[i] = W[i] - (IF ok /\ mask'[i] THEN cfg.unlearn_lr * circuit[i] * ScoreUnit ELSE 0)
                               - cfg.retaining_rate * grad["base"][i]
AllOpen == cfg.forget_thresh = 0 /\ cfg.alpha_low_thresh = 0 /\ cfg.alpha_thresh = 180
AngleMasked == variant = "no_abs" /\ AllOpen /\ hist # <<>> /\ Last(hist) = "update"

\* C10 as stated: with forget_thresh = 0, alpha_low_thresh = 0 and
\* alpha_thresh = 180 the mask is true for every weight.
C10_Original == AngleMasked => \A i \in Weights : mask[i]

\* C10: with forget_thresh = 0, alpha_low_thresh = 0 and alpha_thresh = 180
\* the mask is true exactly for the weights whose to_forget is not zero,
\* whatever the retain gradient.
C10_AllOpenMask == AngleMasked => \A i \in Weights : mask[i] <=> circuit[i] # 0

C10_Witness ==
    /\ AngleMasked
    /\ \E i, j, l \in Weights : /\ circuit[i] = 0 /\ ~mask[i]
                                /\ circuit[j] < 0 /\ mask[j]
                                /\ circuit[l] > 0 /\ mask[l]

(* ======================== properties of the gate ======================= *)
\* the operation a step of the loop performs
OpOf(h, h2) == IF h2 # <<>> /\ h2 # h THEN Last(h2) ELSE "none"
\* the last evaluation reported the retain loss as not ok
RetainNotOk == "retain_loss_ok" \in DOMAIN res /\ ~res["retain_loss_ok"]

\* C11: while the last evaluation of seek_and_destroy.py or
\* seek_and_destroy_no_abs.py says the retain loss is not ok, a step applies
\* no forget update to any intervened weight and still applies its retain
\* update.
C11_Step ==
    LET op == OpOf(hist, hist')
    IN (variant \in {"seek", "no_abs"} /\ RetainNotOk) =>
           /\ op \notin {"mask", "unlearn_opt"}
           /\ op = "score_update" => pc' = "retain_opt"
           /\ op = "retain_opt" =>
                  /\ pc' \in {"loop", "eval"}
                  /\ IF cfg.use_ret_lora
                     THEN W' = W /\ \A i \in DOMAIN ret_lora :
                              ret_lora'[i] = ret_lora[i] - cfg.retaining_rate * grad["ret_lora"][i]
                     ELSE \A i \in Weights : W'[i] = W[i] - cfg.unlearn_lr * grad["base"][i]
           /\ op = "update" =>
                  \A i \in Weights : W'[i] = W[i] - cfg.retaining_rate * grad["base"][i]
C11_SafetyValve == [][C11_Step]_vars

C11_Witness ==
    /\ variant = "seek" /\ RetainNotOk /\ pc = "loop" /\ ~cfg.use_ret_lora
    /\ hist = <<"retain_fb", "score_update", "retain_opt">>
    /\ W # ZerosLike

\* a step of the loop has been passed
Passed == step >= 1 /\ pc \in {"loop", "relearn", "done"}
Evaluated == \E i \in 1..Len(hist) : hist[i] = "eval"

\* C12 as stated: no step s with s mod eval_every = 0 is passed without an
\* evaluation.
C12_Original ==
    (variant \in {"adapters", "seek"} /\ Passed /\ step % EvalEvery = 0) => Evaluated

\* C12: a step s is passed with an evaluation exactly when s mod eval_every
\* = 0 and s > disruption_score_warmup (the warmup `continue` skips the
\* evaluation too); adversarial_adapters.py evaluates the forget and the
\* retain loss with and without the adversary adapter.
C12_EvalSteps ==
    (variant \in {"adapters", "seek"} /\ Passed) =>
        /\ Evaluated <=> (step % EvalEvery = 0 /\ step > cfg.disruption_score_warmup)
        /\ (variant = "adapters" /\ Evaluated) =>
               DOMAIN res = {"base_forget", "base_retain", "adv_forget", "adv_retain"}

C12_Witness ==
    /\ variant = "adapters" /\ Passed /\ Evaluated /\ step = EvalEvery
    /\ \A k \in DOMAIN res : Num(res[k])

\* the evaluation of adversarial_adapters.py is the last thing the trial did
\* in its loop; `res` holds its four losses
Gated == variant = "adapters" /\ hist # <<>> /\ Last(hist) = "eval"
AnyNaN == \E k \in DOMAIN res : ~Num(res[k])
RetainCollapse == LossGt(res["base_retain"], init_retain + AA_retain_margin)
Stagnation == step >= StallMinStep /\ LossLt(res["base_forget"], init_forget + AA_forget_margin)
AdvAbove == LossGt(res["adv_forget"], AA_adv_forget_limit)
AdvBelow == LossLt(res["adv_forget"], AA_adv_forget_limit)
Flags == {"retain_broken", "lora_defeaten"}
\* the message of the first rule, in the order of the code, that matches
Fired ==
    IF RetainCollapse THEN "Retain performance broken"
    ELSE IF Stagnation THEN "Forget loss stalled"
    ELSE IF AdvAbove THEN "Adversarial LoRA defeaten"
    ELSE IF AnyNaN THEN "NaN in eval results"
    ELSE "none"

\* C13 as stated: an evaluation with a NaN loss prunes the trial and sets
\* neither flag, whatever the other losses are.
C13_Original ==
    (Gated /\ AnyNaN) => (pc = "pruned" /\ user_attrs \cap Flags = {})

\* C13: the rules are tried in the order retain collapse, forget stagnation,
\* adversary, NaN and the first match prunes the trial; an evaluation with a
\* NaN loss always prunes the trial (a comparison with NaN is false), as a NaN
\* failure with neither flag only when none of the three other rules matches
\* the losses that are not NaN.
C13_RuleOrder ==
    Gated =>
        /\ AnyNaN => pc = "pruned"
        /\ pc = "pruned" <=> Fired # "none"
        /\ pc = "pruned" => log = <<Fired>>
        /\ (AnyNaN /\ ~RetainCollapse /\ ~Stagnation /\ ~AdvAbove) =>
               (log = <<"NaN in eval results">> /\ user_attrs \cap Flags = {})

C13_Witness ==
    /\ Gated /\ AnyNaN /\ RetainCollapse
    /\ pc = "pruned" /\ "retain_broken" \in user_attrs

\* an evaluation of aa_dynamic_mask.py is the last thing its loop did
GatedDM == variant = "dynamic_mask" /\ hist # <<>> /\ Last(hist) = "eval"

\* C14 as stated: wherever the base retain loss of an evaluation exceeds
\* init_retain + margin, the run is ended with the flag retain_broken.
C14_Original ==
    /\ (Gated /\ RetainCollapse) => (pc = "pruned" /\ "retain_broken" \in user_attrs)
    /\ (GatedDM /\ DM_retain_broken(res["base_retain"])) =>
           (pc # "loop" /\ "retain_broken" \in user_attrs)

\* C14: adversarial_adapters.py prunes the trial with the flag retain_broken
\* at the first evaluation whose base retain loss exceeds init_retain +
\* margin: the flag is set at an evaluation exactly when its retain loss does,
\* a trial that goes on had no such evaluation, and a pruned trial takes no
\* further step. aa_dynamic_mask.py leaves its loop at such an evaluation
\* (retain perplexity above 1.1 * init_retain) without recording a flag.
C14_Step ==
    /\ pc = "pruned" => UNCHANGED vars
    /\ (variant = "adapters" /\ "retain_broken" \in user_attrs) => pc = "pruned"
    /\ (variant = "adapters" /\ hist' # <<>> /\ Last(hist') = "eval" /\ hist' # hist) =>
           /\ "retain_broken" \in user_attrs' <=>
                  LossGt(res'["base_retain"], init_retain + AA_retain_margin)
           /\ "retain_broken" \in user_attrs' => pc' = "pruned"
    /\ (variant = "dynamic_mask" /\ hist' # <<>> /\ Last(hist') = "eval" /\ hist' # hist) =>
           /\ DM_retain_broken(res'["base_retain"]) => pc' = "after_loop"
           /\ user_attrs' = {}
C14_RetainBroken == [][C14_Step]_vars

C14_Witness ==
    /\ Gated /\ RetainCollapse /\ pc = "pruned" /\ "retain_broken" \in user_attrs
    /\ step = 2 * EvalEvery

\* C15 as stated: lora_defeaten is set exactly when no earlier rule matched
\* and the adversary's forget loss is below the limit.
C15_Original ==
    (Gated /\ ~AnyNaN /\ ~RetainCollapse /\ ~Stagnation) =>
        ("lora_defeaten" \in user_attrs <=> AdvBelow)

\* C15: adversarial_adapters.py prunes the trial with the flag lora_defeaten
\* exactly when neither the retain rule nor the stagnation rule matched and
\* the adversary's forget loss is ABOVE the limit (`res["adv_forget"] > 50`:
\* the adversary has diverged); a loss at or below the limit sets no flag.
\* aa_dynamic_mask.py leaves its loop when the adversary's forget perplexity
\* is above its limit and records no flag.
C15_LoraDefeaten ==
    /\ Gated =>
           /\ "lora_defeaten" \in user_attrs <=> (~RetainCollapse /\ ~Stagnation /\ AdvAbove)
           /\ "lora_defeaten" \in user_attrs => (pc = "pruned" /\ log = <<"Adversarial LoRA defeaten">>)
    /\ GatedDM =>
           /\ res["adv_forget"] > AD_ppl_limit => pc # "loop"
           /\ user_attrs = {}

C15_Witness ==
    /\ Gated /\ AdvAbove /\ "lora_defeaten" \in user_attrs /\ pc = "pruned"
    /\ Num(res["base_forget"]) /\ Num(res["base_retain"]) /\ Num(res["adv_retain"])

\* the trial was pruned by the stagnation rule
StagnationAbort == pc = "pruned" /\ log = <<"Forget loss stalled">>

\* C16: at an evaluation of adversarial_adapters.py at step s where the
\* retain rule did not match, the trial is pruned for stagnation if and only
\* if s >= the minimum step count and base forget loss < init_forget +
\* margin; a stagnation abort sets neither flag.
C16_Stagnation ==
    Gated =>
        /\ ~RetainCollapse =>
               (StagnationAbort <=>
                    (step >= StallMinStep
                     /\ LossLt(res["base_forget"], init_forget + AA_forget_margin)))
        /\ step < StallMinStep => ~StagnationAbort
        /\ StagnationAbort => user_attrs \cap Flags = {}

C16_Witness ==
    /\ Gated /\ StagnationAbort /\ step >= StallMinStep
    /\ LossGt(res["adv_forget"], AA_adv_forget_limit)

(* =================== properties of the trial's outcome ================= *)
\* objective has returned a fitness
Returned == variant \in {"adapters", "seek", "no_abs"} /\ pc = "done"

ReasonFlags(msg) ==
    CASE msg = "Retain performance broken" -> {"retain_broken"}
      [] msg = "Adversarial LoRA defeaten" -> {"lora_defeaten"}
      [] OTHER -> {}
\* the condition a record names, a record without a flag read as stagnation
ReasonCode(r) ==
    IF "retain_broken" \in r.user_attrs THEN "Retain performance broken"
    ELSE IF "lora_defeaten" \in r.user_attrs THEN "Adversarial LoRA defeaten"
    ELSE "Forget loss stalled"
\* a pruned trial of adversarial_adapters.py ends: no sub-step, no relearning
\* attack, no fitness; the study records it and starts the next trial
PrunedEnds ==
    (variant = "adapters" /\ pc = "pruned") =>
        /\ forget_losses = <<>> /\ forget_loss = <<>>
        /\ trials' = Append(trials, Last(trials'))
        /\ Last(trials').state = "PRUNED" /\ Last(trials').value = <<>>
        /\ pc' = IF Len(trials') < MaxTrials THEN "loop" ELSE "finished"
        /\ Len(trials') < MaxTrials => (step' = 0 /\ hist' = <<>> /\ log' = <<>>)

\* C17 as stated: the record of a pruned trial identifies which of the four
\* conditions fired.
C17_OriginalStep ==
    /\ PrunedEnds
    /\ (variant = "adapters" /\ pc = "pruned") => ReasonCode(Last(trials')) = Last(log)
C17_Original == [][C17_OriginalStep]_vars

\* C17: each of the four pruning conditions ends only the current trial: the
\* pruned trial runs no further sub-step, never runs the relearning attack
\* and reports no fitness, and the study goes on to the next trial; its
\* record names the condition by a flag for retain collapse (retain_broken)
\* and for the adversary rule (lora_defeaten) only: a stagnation and a NaN
\* abort are both recorded as pruned with neither flag.
C17_Step ==
    /\ PrunedEnds
    /\ (variant = "adapters" /\ pc = "pruned") =>
           /\ Last(log) \in {"Retain performance broken", "Forget loss stalled",
                             "Adversarial LoRA defeaten", "NaN in eval results"}
           /\ Last(trials').user_attrs = ReasonFlags(Last(log))
C17_Pruned == [][C17_Step]_vars

C17_Witness ==
    /\ variant = "adapters" /\ pc = "finished" /\ Len(trials) = MaxTrials
    /\ trials[1].state = "PRUNED" /\ trials[1].user_attrs = {}
    /\ Last(trials) = [state |-> "PRUNED", value |-> <<>>, user_attrs |-> {}]
    /\ log = <<"Forget loss stalled">>

\* the fitness values of the trials that have completed, the running one
\* included once its objective has returned
Completed ==
    {trials[i].value[1] : i \in {j \in DOMAIN trials : trials[j].state = "COMPLETE"}}
        \cup (IF pc = "done" THEN {forget_loss[1]} ELSE {})
SetMax(S) == CHOOSE x \in S : \A y \in S : y <= x
\* the file holds the model of the trial that reached best_value
BestIsMax ==
    /\ best_value = SetMax(Completed \cup {0})
    /\ best_value > 0 <=> best_model_path # <<>>
    /\ best_model_path # <<>> =>
           LET t == Last(best_model_path)
           IN IF t <= Len(trials)
              THEN trials[t].state = "COMPLETE" /\ trials[t].value = <<best_value>>
              ELSE pc = "done" /\ forget_loss = <<best_value>>

\* C19: in seek_and_destroy.py best_value is the maximum fitness of the
\* completed trials so far (0 when there is none) and never decreases; the
\* best-model file is written in exactly the trials whose fitness is strictly
\* greater than best_value at that moment, and belongs to the trial holding
\* best_value; pruned and failed trials change neither.
C19_Step ==
    variant = "seek" =>
        /\ best_value' >= best_value
        /\ BestIsMax'
        /\ IF pc = "relearn"
           THEN /\ pc' = "done"
                /\ IF forget_loss'[1] > best_value
                   THEN /\ best_value' = forget_loss'[1]
                        /\ best_model_path' = Append(best_model_path, Len(trials) + 1)
                   ELSE best_value' = best_value /\ best_model_path' = best_model_path
           ELSE best_value' = best_value /\ best_model_path' = best_model_path
C19_BestValue == [][C19_Step]_vars

C19_Witness ==
    /\ variant = "seek" /\ pc = "finished" /\ Len(trials) = MaxTrials
    /\ trials[1].state = "COMPLETE" /\ Last(trials).state = "COMPLETE"
    /\ Last(trials).value = trials[1].value
    /\ best_model_path = <<1>> /\ <<best_value>> = trials[1].value

(* ================== properties of the trial's set-up =================== *)
\* target_modules matches no parameter, or a matched name is not in the circuit
EmptyIntervened == cfg.interven_names = {}
MissingName == ~(cfg.interven_names \subseteq cfg.circuit_names)
ConfigError == variant \in {"seek", "no_abs"} /\ (EmptyIntervened \/ MissingName)
\* no backward pass, score update or optimizer step has been executed
Untrained ==
    /\ hist = <<>> /\ upd_grads = <<>>
    /\ grad = NoGrads
    /\ disruption_score = ZerosLike
    /\ W = ZerosLike /\ ret_lora = <<0>> /\ adv_lora = <<0>>

LaterTrialTrains == trials # <<>> /\ pc # "finished" /\ hist # <<>>

\* C21: when a trial after the first executes its first training operation,
\* the device cache has been cleared at least once for every trial that
\* ended before it.
C21_CacheCleared == LaterTrialTrains => empty_cache_calls >= Len(trials)

\* the circuit as loaded before the first trial
LoadedCircuit == <<2, 1, -1>>

\* C22: no operation of a trial of seek_and_destroy.py or
\* seek_and_destroy_no_abs.py, and no start of a trial, changes the circuit
\* (and with it any parameter's to_forget, which aliases it): every trial of
\* the study reads the circuit as it was loaded.
C22_Step ==
    variant \in {"seek", "no_abs"} => (circuit' = circuit /\ circuit' = LoadedCircuit)
C22_CircuitReadOnly == [][C22_Step]_vars

C22_Witness ==
    /\ variant = "seek" /\ Len(trials) >= 1 /\ trials[1].state = "COMPLETE"
    /\ hist # <<>> /\ Last(hist) = "unlearn_opt"
    /\ \E i \in Weights : mask[i] /\ circuit[i] # 0 /\ W[i] # 0
    /\ circuit = LoadedCircuit

(* ==================== properties of unlearn_steps = 0 ==================== *)
ZeroSteps == variant \in {"seek", "no_abs"} /\ cfg.unlearn_steps = 0
\* no iteration has run: the model is as loaded and nothing has been evaluated
Untouched ==
    /\ step = 0 /\ hist = <<>>
    /\ W = ZerosLike /\ ret_lora = <<0>> /\ grad = NoGrads
    /\ disruption_score = ZerosLike /\ mask = <<>> /\ res = NoRes

\* C23: with unlearn_steps = 0 the loops of seek_and_destroy.py and
\* seek_and_destroy_no_abs.py run no iteration (no score update, no optimizer
\* step, no evaluation), the relearning attack is run on the weights of the
\* model as loaded, and the fitness of the trial is the minimum of the losses
\* that attack returns.
C23_Step ==
    ZeroSteps =>
        /\ Untouched /\ Untouched'
        /\ pc # "done" => forget_loss = <<>>
        /\ pc' = "done" => /\ forget_losses' \in relearn
                           /\ forget_loss' = <<min(forget_losses')>>
C23_ZeroSteps == [][C23_Step]_vars

C23_Witness ==
    /\ ZeroSteps /\ variant = "seek" /\ cfg.use_ret_lora
    /\ pc = "done" /\ forget_loss # <<>> /\ W = ZerosLike

(* ============== properties of the normalised unlearn step ================ *)
AllNum(t) == \A i \in DOMAIN t : Num(t[i])

\* C24: in adversarial_adapters.py, whenever the unlearn sub-step runs on a
\* model whose weights are numbers, the mask selects at least one weight with
\* a non-zero gradient, so the normalised gradient has no NaN, and the base
\* optimizer step leaves every intervened weight a number.
C24_Step ==
    variant = "adapters" /\ AllNum(W) =>
        /\ pc = "mask" /\ pc' = "unlearn_opt" =>
              /\ \E i \in Weights : mask'[i] /\ grad["base"][i] # 0
              /\ AllNum(grad'["base"])
        /\ pc = "unlearn_opt" /\ pc' = "adv" => AllNum(W')
C24_NonZeroNorm == [][C24_Step]_vars
====
